---- MODULE Spec2Model ----
(***************************************************************************)
(* Model of the VicEmergency monitor: the status tracker (state store and  *)
(* change classifier) driven by the poll cycle of VicEmergencyMonitor, the *)
(* postcode geocoder (reference index, strategy chain, cache and           *)
(* throttle), the history tracker of the dashboard (snapshots and          *)
(* per-postcode history), the dashboard's severity comparison, and the     *)
(* loading of the state and history files.                                 *)
(*                                                                         *)
(* Python's None is the string "None".  Wall-clock time of the tracker is  *)
(* an integer number of seconds; the geocoder's time.time() is an integer  *)
(* number of tenths of a second; datetime.now() of the history tracker is  *)
(* an integer number of instants, TicksPerSecond to the second.            *)
(***************************************************************************)
EXTENDS Integers, Sequences, FiniteSets, TLC

None == "None"

(***************************************************************************)
(* Bounds of the model.                                                    *)
(***************************************************************************)
\* longest batch one poll fetches
MaxBatch == 2
\* seconds the wall clock advances between polls
TickSeconds == 28800
\* number of clock advances explored
MaxTicks == 5
\* longest location text, in tokens
MaxLoc == 2
\* time.time() when the geocoder is constructed, in tenths of a second
StartTime == 20
\* tenths of a second the geocoder's clock advances at a time
TickTenths == 4
\* the last instant of the geocoder's clock explored
MaxTime == 53
\* most rows of a reference file
MaxRows == 3
\* instants of the dashboard's wall clock in one second
TicksPerSecond == 2
\* most snapshots saved when every batch is tried
MaxSaves == 2
\* most snapshots saved from one feed
MaxFeedSaves == 102
\* most rows of the dashboard's table
MaxFrame == 2
\* the last update time and boundary of a time-window comparison
MaxWindow == 3

(***************************************************************************)
(* str.upper() on the strings of the model.                                *)
(***************************************************************************)
UpperTable ==
    [s \in {"Going", "GOING", "Responding", "Contained", "Controlled",
            "Safe", "SAFE", "safe", "Requested", "", "Melbourne", "Geelong"} |->
        CASE s \in {"Going", "GOING"}        -> "GOING"
          [] s = "Melbourne"                 -> "MELBOURNE"
          [] s = "Geelong"                   -> "GEELONG"
          [] s = "Responding"                -> "RESPONDING"
          [] s = "Contained"                 -> "CONTAINED"
          [] s = "Controlled"                -> "CONTROLLED"
          [] s \in {"Safe", "SAFE", "safe"}  -> "SAFE"
          [] s = "Requested"                 -> "REQUESTED"
          [] OTHER                           -> ""]

Upper(s) == IF s \in DOMAIN UpperTable THEN UpperTable[s] ELSE s

(***************************************************************************)
(* models.py                                                               *)
(***************************************************************************)
ChangeType == {"NEW", "UPGRADE", "DOWNGRADE", "RESOLVED", "NONE"}

\* enum StatusPriority: member name -> value (RESPONDING is an alias of GOING)
StatusPriority ==
    [n \in {"GOING", "RESPONDING", "CONTAINED", "CONTROLLED", "SAFE"} |->
        CASE n = "GOING"      -> 1
          [] n = "RESPONDING" -> 1
          [] n = "CONTAINED"  -> 2
          [] n = "CONTROLLED" -> 3
          [] n = "SAFE"       -> 4]

\* the incident numbers the feed reports
IncidentNos == {101, 102}

\* originStatus values of the poll model and of the classification model
PollStatuses == {"Going", "Contained", "Safe"}
AllStatuses == {"Going", "GOING", "Responding", "Contained", "Controlled",
                "Safe", "SAFE", "safe", "Requested", ""}

\* dataclass Incident, restricted to the fields the tracker reads; the
\* fields copied verbatim next to origin_status are represented by category2
Incident(no, st, cat) ==
    [incident_no |-> no, origin_status |-> st, category2 |-> cat]

\* the poll model: incident 101 in every poll status, incident 102 beside it
PollIncidents == {Incident(101, st, "Fire") : st \in PollStatuses}
                    \cup {Incident(102, "Going", "Fire")}
AllIncidents == {Incident(no, st, cat) : no \in IncidentNos, st \in AllStatuses,
                                          cat \in {"Fire", "Flood"}}

RECURSIVE SeqsUpTo(_, _)
SeqsUpTo(S, n) ==
    IF n = 0 THEN {<<>>}
    ELSE LET shorter == SeqsUpTo(S, n - 1)
         IN  shorter \cup {Append(q, x) : q \in {p \in shorter : Len(p) = n - 1}, x \in S}

Batches == SeqsUpTo(PollIncidents, MaxBatch)

VARIABLES
    clock,            \* datetime.now() as seconds
    previous_states,  \* StatusTracker._previous_states: incident_no -> state
    last_batch,       \* the batch the last run_check fetched
    last_statuses,    \* what the last run_check returned
    last_reported,    \* history: incident_no -> status of its latest report
    purged            \* history: numbers purged since their latest report

tvars == <<clock, previous_states, last_batch, last_statuses, last_reported, purged>>

VARIABLES
    db,                  \* PostcodeGeocoder.db: the PostcodeDatabase
    _geocode_cache,      \* PostcodeGeocoder._geocode_cache: key -> postcode
    _last_request_time,  \* PostcodeGeocoder._last_request_time
    time,                \* time.time() in tenths of a second
    pending,             \* the reverse() request in flight, or None
    call,                \* the resolve_postcode call in progress or finished last
    requests,            \* history: key -> requests sent to the service
    cached_at,           \* history: key -> requests sent when the key was cached
    request_times        \* history: the times of the last two requests

gvars == <<db, _geocode_cache, _last_request_time, time, pending, call,
           requests, cached_at, request_times>>

VARIABLES
    reference_rows,      \* the rows of vic_postcodes.csv the database was loaded from
    query                \* the last direct query of the database, with its answer

ivars == <<reference_rows, query>>

VARIABLES
    _history,            \* HistoryTracker._history: postcode -> entries
    _snapshots,          \* HistoryTracker._snapshots
    wall,                \* datetime.now() of the history tracker, in seconds
    feed,                \* the batches and pauses the dashboard saves in turn
    saved,               \* history: the last save_snapshot call
    compared,            \* the last compare_snapshots call, with its answer
    verdict              \* the last comparison of app.py, with its answer

hvars == <<_history, _snapshots, wall, feed, saved, compared, verdict>>

VARIABLES
    state_file,          \* the content of Config.STATE_FILE
    history_file,        \* the content of warning_history.json
    constructed          \* what the two constructors did

lvars == <<state_file, history_file, constructed>>

VARIABLES
    main_at,             \* where the main thread of main.py is
    fetched,             \* the incidents the cycle under way has fetched
    cycle_statuses,      \* the statuses its process_incidents has built so far
    cycle                \* history: how the cycle under way and the one before went

cvars == <<main_at, fetched, cycle_statuses, cycle>>

VARIABLES
    windowed             \* the last compare_times call, with its answer

wvars == <<windowed>>

\* the variables of the database queries, the history, the files, the poll
\* loop and the time-window comparison
others == <<ivars, hvars, lvars, cvars, wvars>>

vars == <<tvars, gvars, others>>

(***************************************************************************)
(* status_tracker.py                                                       *)
(***************************************************************************)
\* retention window of update_state, in seconds
stale_window == 24 * 60 * 60

_get_status_priority(status) ==
    LET status_upper == Upper(status)
    IN  IF status_upper \in DOMAIN StatusPriority
        THEN StatusPriority[status_upper]
        ELSE 5

\* detect_change reading a missing entry as an empty one
detect_change_no_new(states, incident_no, current_status) ==
    LET previous_status == IF incident_no \in DOMAIN states
                           THEN states[incident_no].origin_status ELSE None
        current_priority == _get_status_priority(current_status)
        previous_priority == _get_status_priority(previous_status)
    IN  IF Upper(current_status) = "SAFE" /\ Upper(previous_status) # "SAFE"
        THEN <<"RESOLVED", previous_status>>
        ELSE IF current_priority < previous_priority
        THEN <<"UPGRADE", previous_status>>
        ELSE IF current_priority > previous_priority
        THEN <<"DOWNGRADE", previous_status>>
        ELSE <<"NONE", previous_status>>

\* detect_change comparing with "SAFE" without upper-casing
detect_change_case_sensitive(states, incident_no, current_status) ==
    IF incident_no \notin DOMAIN states
    THEN <<"NEW", None>>
    ELSE LET previous_status == states[incident_no].origin_status
             current_priority == _get_status_priority(current_status)
             previous_priority == _get_status_priority(previous_status)
         IN  IF current_status = "SAFE" /\ previous_status # "SAFE"
             THEN <<"RESOLVED", previous_status>>
             ELSE IF current_priority < previous_priority
             THEN <<"UPGRADE", previous_status>>
             ELSE IF current_priority > previous_priority
             THEN <<"DOWNGRADE", previous_status>>
             ELSE <<"NONE", previous_status>>

\* detect_change with the two rank comparisons exchanged
detect_change_swapped(states, incident_no, current_status) ==
    IF incident_no \notin DOMAIN states
    THEN <<"NEW", None>>
    ELSE LET previous_status == states[incident_no].origin_status
             current_priority == _get_status_priority(current_status)
             previous_priority == _get_status_priority(previous_status)
         IN  IF Upper(current_status) = "SAFE" /\ Upper(previous_status) # "SAFE"
             THEN <<"RESOLVED", previous_status>>
             ELSE IF current_priority > previous_priority
             THEN <<"UPGRADE", previous_status>>
             ELSE IF current_priority < previous_priority
             THEN <<"DOWNGRADE", previous_status>>
             ELSE <<"NONE", previous_status>>

detect_change(states, incident_no, current_status) ==
    IF incident_no \notin DOMAIN states
    THEN <<"NEW", None>>
    ELSE LET previous_status == states[incident_no].origin_status
             current_priority == _get_status_priority(current_status)
             previous_priority == _get_status_priority(previous_status)
         IN  IF Upper(current_status) = "SAFE" /\ Upper(previous_status) # "SAFE"
             THEN <<"RESOLVED", previous_status>>
             ELSE IF current_priority < previous_priority
             THEN <<"UPGRADE", previous_status>>
             ELSE IF current_priority > previous_priority
             THEN <<"DOWNGRADE", previous_status>>
             ELSE <<"NONE", previous_status>>

\* the dict entry update_state writes for one incident.  last_seen is
\* datetime.now().isoformat(), which update_state reads back with
\* fromisoformat().timestamp(): the instant written, for every local time
\* that the time zone does not repeat (naive local time drops the fold).
StateOf(incident, now) ==
    [origin_status |-> incident.origin_status,
     category2     |-> incident.category2,
     last_seen     |-> now]

\* dict assignment d[k] = v
Put(d, k, v) == [x \in DOMAIN d \cup {k} |-> IF x = k THEN v ELSE d[x]]

\* the first loop of update_state writing only numbers it has not stored yet
RECURSIVE StoreBatch_keep_first(_, _, _)
StoreBatch_keep_first(states, incidents, now) ==
    IF incidents = <<>> THEN states
    ELSE StoreBatch_keep_first(
            IF Head(incidents).incident_no \in DOMAIN states
            THEN states
            ELSE Put(states, Head(incidents).incident_no,
                     StateOf(Head(incidents), now)),
            Tail(incidents), now)

\* the first loop of update_state
RECURSIVE StoreBatch(_, _, _)
StoreBatch(states, incidents, now) ==
    IF incidents = <<>> THEN states
    ELSE StoreBatch(Put(states, Head(incidents).incident_no,
                        StateOf(Head(incidents), now)),
                    Tail(incidents), now)

\* the second loop of update_state deleting every number absent from the feed
ToRemove_at_once(states, current_incident_nos, now) ==
    {no \in DOMAIN states : no \notin current_incident_nos}

\* the second loop of update_state: the numbers to delete
ToRemove(states, current_incident_nos, now) ==
    {no \in DOMAIN states :
        /\ no \notin current_incident_nos
        /\ states[no].last_seen < now - stale_window}

\* update_state without its first loop: the batch is not stored
update_state_purge_only(states, incidents, now) ==
    LET current_incident_nos == {incidents[i].incident_no : i \in DOMAIN incidents}
        to_remove == ToRemove(states, current_incident_nos, now)
    IN  [no \in DOMAIN states \ to_remove |-> states[no]]

update_state(states, incidents, now) ==
    LET current_incident_nos == {incidents[i].incident_no : i \in DOMAIN incidents}
        stored == StoreBatch(states, incidents, now)
        to_remove == ToRemove(stored, current_incident_nos, now)
    IN  [no \in DOMAIN stored \ to_remove |-> stored[no]]

(***************************************************************************)
(* The state file.  A file is missing, is not JSON ("invalid"), is JSON    *)
(* whose top level is a list ("array"), or is a JSON object; the value of  *)
(* its "incidents" key is then absent, null or a dict with string keys.    *)
(***************************************************************************)
MissingFile ==
    [kind |-> "missing", incidents_kind |-> "absent", incidents |-> << >>]

StateFile(kind, incidents_kind, incidents) ==
    [kind |-> kind, incidents_kind |-> incidents_kind, incidents |-> incidents]

\* json.dump writes an int key as its decimal string
KeyOf == [no \in IncidentNos |-> IF no = 101 THEN "101" ELSE "102"]

\* the keys int() accepts, with their values; int() raises ValueError on
\* every other key
IntOf == [k \in {"101", "102"} |-> IF k = "101" THEN 101 ELSE 102]

\* _save_state writing every entry without its origin_status, which
\* detect_change then reads as ""
_save_state_without_status(states) ==
    StateFile("object", "dict",
              [k \in {KeyOf[no] : no \in DOMAIN states} |->
                  [states[IntOf[k]] EXCEPT !.origin_status = ""]])

\* the file _save_state writes
_save_state(states) ==
    StateFile("object", "dict",
              [k \in {KeyOf[no] : no \in DOMAIN states} |-> states[IntOf[k]]])

\* _load_state: the exception that leaves it (None when it returns), whether
\* it printed its warning, and self._previous_states afterwards
_load_state(file) ==
    CASE file.kind = "missing" ->
            [raised |-> None, warned |-> FALSE, states |-> << >>]
      [] file.kind = "invalid" ->
            [raised |-> None, warned |-> TRUE, states |-> << >>]
      [] file.kind = "array" ->
            [raised |-> "AttributeError", warned |-> FALSE, states |-> << >>]
      [] file.kind = "object" /\ file.incidents_kind = "absent" ->
            [raised |-> None, warned |-> FALSE, states |-> << >>]
      [] file.kind = "object" /\ file.incidents_kind = "null" ->
            [raised |-> "AttributeError", warned |-> FALSE, states |-> << >>]
      [] OTHER ->
            IF DOMAIN file.incidents \subseteq DOMAIN IntOf
            THEN [raised |-> None, warned |-> FALSE,
                  states |-> [no \in {IntOf[k] : k \in DOMAIN file.incidents} |->
                                 file.incidents[KeyOf[no]]]]
            ELSE [raised |-> "ValueError", warned |-> FALSE, states |-> << >>]

(***************************************************************************)
(* monitor.py.  process_incidents also resolves the postcode of every      *)
(* incident; the resolution does not enter the classification and is       *)
(* modelled by resolve_postcode below.                                     *)
(***************************************************************************)
\* one EmergencyStatus of process_incidents.  The last four fields are
\* history: whether the store had an entry for the number when it was
\* classified and with which status, what the latest earlier poll reported
\* for it, and whether the store purged it since.
StatusOf(states, incident, reported, gone) ==
    LET change == detect_change(states, incident.incident_no, incident.origin_status)
    IN  [incident_no     |-> incident.incident_no,
         origin_status   |-> incident.origin_status,
         change_type     |-> change[1],
         previous_status |-> change[2],
         had_entry       |-> incident.incident_no \in DOMAIN states,
         stored          |-> IF incident.incident_no \in DOMAIN states
                             THEN states[incident.incident_no].origin_status
                             ELSE None,
         prior           |-> reported[incident.incident_no],
         was_purged      |-> incident.incident_no \in gone]

process_incidents(states, incidents, reported, gone) ==
    [i \in DOMAIN incidents |-> StatusOf(states, incidents[i], reported, gone)]

\* the status of the last record of each number in the batch
RECURSIVE Reported(_, _)
Reported(reported, incidents) ==
    IF incidents = <<>> THEN reported
    ELSE Reported([reported EXCEPT ![Head(incidents).incident_no] =
                        Head(incidents).origin_status],
                  Tail(incidents))

run_check(incidents) ==
    /\ last_batch' = incidents
    /\ IF incidents = <<>>
       THEN /\ last_statuses' = <<>>
            /\ UNCHANGED <<previous_states, last_reported, purged, state_file>>
       ELSE /\ last_statuses' =
                  process_incidents(previous_states, incidents, last_reported, purged)
            /\ previous_states' = update_state(previous_states, incidents, clock)
            /\ state_file' = _save_state(previous_states')
            /\ last_reported' = Reported(last_reported, incidents)
            /\ purged' = (purged \ {incidents[i].incident_no : i \in DOMAIN incidents})
                            \cup (DOMAIN previous_states \ DOMAIN previous_states')
    /\ UNCHANGED <<clock, gvars, ivars, hvars, history_file, constructed, cvars, wvars>>

\* time passes between two polls
Tick ==
    /\ clock + TickSeconds <= MaxTicks * TickSeconds
    /\ clock' = clock + TickSeconds
    /\ UNCHANGED <<previous_states, last_batch, last_statuses, last_reported, purged>>
    /\ UNCHANGED <<gvars, others>>

TrackerInit ==
    /\ clock = 0
    /\ previous_states = << >>
    /\ last_batch = <<>>
    /\ last_statuses = <<>>
    /\ last_reported = [no \in IncidentNos |-> None]
    /\ purged = {}

(***************************************************************************)
(* Text of the geocoder.  A string is the sequence of its blank-separated  *)
(* tokens; the empty sequence is the empty string and also stands for      *)
(* None, which the code tests alike ("if not location", "if suburb").      *)
(* Dist is a distance prefix, a match of \d+\.?\d*\s*KM\s+[NSEW]+\s+OF.    *)
(* A postcode is a string, None being "None".                              *)
(***************************************************************************)
Dist == "2.5KM NW OF"

UpperText(text) == [i \in DOMAIN text |-> Upper(text[i])]

Truthy(postcode) == postcode \notin {None, ""}

Range(q) == {q[i] : i \in DOMAIN q}

SetMin(S) == CHOOSE x \in S : \A y \in S : x <= y
SetMax(S) == CHOOSE x \in S : \A y \in S : x >= y

\* the road-type suffixes _extract_location_parts removes
RoadSuffixes == {"ROAD", "RD", "STREET", "ST", "AVENUE", "AVE", "HIGHWAY", "HWY",
                 "DRIVE", "DR", "LANE", "LN", "COURT", "CT", "PLACE", "PL",
                 "CRESCENT", "CR", "BOULEVARD", "BLVD"}

\* the tokens that begin with VIC
VicTokens == {"VIC", "VICTORIA"}

\* the tokens of at most two characters
ShortTokens == {",", "-", "/", "AT", "RD", "ST", "DR", "LN", "CT", "PL", "CR"}

(***************************************************************************)
(* geocoder.py: PostcodeDatabase                                           *)
(***************************************************************************)
\* a reference row is <<postcode, locality, lon, lat>>, a coordinate field
\* being <<n>> when float() accepts it and <<>> when it raises ValueError
EmptyDatabase ==
    [suburb_to_postcode |-> << >>, postcode_coords |-> << >>, all_coords |-> <<>>]

\* whether the loop of _load_database stores the row
ValidRow(row) == Len(row) >= 4 /\ Len(row[3]) = 1 /\ Len(row[4]) = 1

\* the loop body storing the postcode of the last row of a locality
LoadRow_last_wins(d, row) ==
    IF Len(row) >= 4 /\ Len(row[3]) = 1 /\ Len(row[4]) = 1
    THEN LET postcode == row[1]
             locality_upper == UpperText(row[2])
             lon == row[3][1]
             lat == row[4][1]
         IN  [suburb_to_postcode |->
                 Put(d.suburb_to_postcode, locality_upper, postcode),
              postcode_coords |->
                 IF postcode \notin DOMAIN d.postcode_coords
                 THEN Put(d.postcode_coords, postcode, <<lat, lon>>)
                 ELSE d.postcode_coords,
              all_coords |-> Append(d.all_coords, <<postcode, lat, lon>>)]
    ELSE d

\* the body of the loop of _load_database for one row
LoadRow(d, row) ==
    IF Len(row) >= 4 /\ Len(row[3]) = 1 /\ Len(row[4]) = 1
    THEN LET postcode == row[1]
             locality_upper == UpperText(row[2])
             lon == row[3][1]
             lat == row[4][1]
         IN  [suburb_to_postcode |->
                 IF locality_upper \notin DOMAIN d.suburb_to_postcode
                 THEN Put(d.suburb_to_postcode, locality_upper, postcode)
                 ELSE d.suburb_to_postcode,
              postcode_coords |->
                 IF postcode \notin DOMAIN d.postcode_coords
                 THEN Put(d.postcode_coords, postcode, <<lat, lon>>)
                 ELSE d.postcode_coords,
              all_coords |-> Append(d.all_coords, <<postcode, lat, lon>>)]
    ELSE d

RECURSIVE LoadRows(_, _)
LoadRows(d, rows) ==
    IF rows = <<>> THEN d ELSE LoadRows(LoadRow(d, Head(rows)), Tail(rows))

_load_database(rows) == LoadRows(EmptyDatabase, rows)

get_postcode_by_suburb(d, suburb) ==
    IF suburb = <<>> THEN None
    ELSE LET suburb_upper == UpperText(suburb)
         IN  IF suburb_upper \in DOMAIN d.suburb_to_postcode
             THEN d.suburb_to_postcode[suburb_upper]
             ELSE None

\* the great-circle distance is replaced by the squared planar distance, which
\* orders the points of the model as the haversine formula does
_haversine(lat1, lon1, lat2, lon2) ==
    (lat2 - lat1) * (lat2 - lat1) + (lon2 - lon1) * (lon2 - lon1)

\* the scan keeping the last of the points at the minimum distance
RECURSIVE NearestFrom_last_minimum(_, _, _, _, _, _)
NearestFrom_last_minimum(all_coords, lat, lon, i, min_distance, nearest_postcode) ==
    IF i > Len(all_coords) THEN nearest_postcode
    ELSE LET distance == _haversine(lat, lon, all_coords[i][2], all_coords[i][3])
         IN  IF min_distance = -1 \/ distance <= min_distance
             THEN NearestFrom_last_minimum(all_coords, lat, lon, i + 1, distance,
                                           all_coords[i][1])
             ELSE NearestFrom_last_minimum(all_coords, lat, lon, i + 1, min_distance,
                                           nearest_postcode)

\* the scan of get_nearest_postcode from row i on; min_distance -1 is infinity
RECURSIVE NearestFrom(_, _, _, _, _, _)
NearestFrom(all_coords, lat, lon, i, min_distance, nearest_postcode) ==
    IF i > Len(all_coords) THEN nearest_postcode
    ELSE LET distance == _haversine(lat, lon, all_coords[i][2], all_coords[i][3])
         IN  IF min_distance = -1 \/ distance < min_distance
             THEN NearestFrom(all_coords, lat, lon, i + 1, distance, all_coords[i][1])
             ELSE NearestFrom(all_coords, lat, lon, i + 1, min_distance, nearest_postcode)

\* get_nearest_postcode refusing the point (0, 0) only
get_nearest_postcode_origin_only(d, lat, lon) ==
    IF d.all_coords = <<>> \/ (lat = 0 /\ lon = 0)
    THEN None
    ELSE NearestFrom(d.all_coords, lat, lon, 1, -1, None)

get_nearest_postcode(d, lat, lon) ==
    IF d.all_coords = <<>> \/ lat = 0 \/ lon = 0
    THEN None
    ELSE NearestFrom(d.all_coords, lat, lon, 1, -1, None)

(***************************************************************************)
(* geocoder.py: PostcodeGeocoder                                           *)
(***************************************************************************)
\* self._min_delay = 1.1 seconds, in tenths of a second
_min_delay == 11

_extract_suburb(location) ==
    IF location = <<>> THEN <<>>
    ELSE LET dists == {i \in 1..(Len(location) - 1) : location[i] = Dist}
             commas == {i \in DOMAIN location : location[i] = ","}
         IN  IF dists # {}
             THEN UpperText(SubSeq(location, SetMin(dists) + 1, Len(location)))
             ELSE IF commas # {}
             THEN LET last == UpperText(SubSeq(location, SetMax(commas) + 1, Len(location)))
                      vics == {i \in 2..Len(last) : last[i] \in VicTokens}
                      suburb == IF vics = {} THEN last
                                ELSE SubSeq(last, 1, SetMin(vics) - 1)
                  IN  IF suburb # <<>> THEN suburb ELSE UpperText(location)
             ELSE UpperText(location)

\* the delimiters of _extract_location_parts; " - ", " AT " and " NEAR "
\* match only between blanks
Delimiters == <<",", "-", "/", "AT", "NEAR">>
Padded(delimiter) == delimiter \in {"-", "AT", "NEAR"}

\* the positions from i on at which str.split(delimiter) cuts the text
RECURSIVE SplitPositions(_, _, _)
SplitPositions(text, delimiter, i) ==
    IF i > Len(text) THEN {}
    ELSE IF text[i] = delimiter /\ (Padded(delimiter) => 1 < i /\ i < Len(text))
    THEN {i} \cup SplitPositions(text, delimiter, IF Padded(delimiter) THEN i + 2 ELSE i + 1)
    ELSE SplitPositions(text, delimiter, i + 1)

\* str.split(delimiter): the parts between the cuts, from position i on
RECURSIVE PartsFrom(_, _, _)
PartsFrom(text, cuts, i) ==
    LET later == {c \in cuts : c >= i}
    IN  IF later = {} THEN <<SubSeq(text, i, Len(text))>>
        ELSE <<SubSeq(text, i, SetMin(later) - 1)>> \o PartsFrom(text, cuts, SetMin(later) + 1)

Split(text, delimiter) == PartsFrom(text, SplitPositions(text, delimiter, 1), 1)

\* one part with its distance prefix and its road suffix removed
Clean(part) ==
    LET undist == IF Len(part) >= 2 /\ part[1] = Dist THEN Tail(part) ELSE part
    IN  IF Len(undist) >= 2 /\ undist[Len(undist)] \in RoadSuffixes
        THEN SubSeq(undist, 1, Len(undist) - 1)
        ELSE undist

\* "if clean and len(clean) > 2"
LongEnough(clean) ==
    /\ clean # <<>>
    /\ Len(clean) = 1 => clean[1] \notin ShortTokens

RECURSIVE CleanParts(_)
CleanParts(parts) ==
    IF parts = <<>> THEN <<>>
    ELSE LET clean == Clean(Head(parts))
         IN  (IF LongEnough(clean) THEN <<clean>> ELSE <<>>) \o CleanParts(Tail(parts))

RECURSIVE PartsOfDelimiters(_, _)
PartsOfDelimiters(location_upper, delimiters) ==
    IF delimiters = <<>> THEN <<>>
    ELSE CleanParts(Split(location_upper, Head(delimiters)))
            \o PartsOfDelimiters(location_upper, Tail(delimiters))

_extract_location_parts(location) ==
    IF location = <<>> THEN <<>>
    ELSE PartsOfDelimiters(UpperText(location), Delimiters)

\* strategy 1: the extracted suburb
Strategy1(d, location) == get_postcode_by_suburb(d, _extract_suburb(location))

\* strategy 2: the municipality as a suburb name
Strategy2(d, municipality) == get_postcode_by_suburb(d, municipality)

\* strategy 3: the first location part the index knows
RECURSIVE FirstKnown(_, _)
FirstKnown(d, parts) ==
    IF parts = <<>> THEN None
    ELSE LET postcode == get_postcode_by_suburb(d, Head(parts))
         IN  IF Truthy(postcode) THEN postcode ELSE FirstKnown(d, Tail(parts))

Strategy3(d, location) == FirstKnown(d, _extract_location_parts(location))

\* strategies 1 to 3 with the municipality consulted before the location
TextStrategies_municipality_first(d, location, municipality) ==
    LET s1 == Strategy1(d, location)
        s2 == Strategy2(d, municipality)
        s3 == Strategy3(d, location)
    IN  IF Truthy(s2) THEN s2
        ELSE IF Truthy(s1) THEN s1
        ELSE IF Truthy(s3) THEN s3
        ELSE None

\* strategies 1 to 3 of resolve_postcode: the postcode returned, or None
TextStrategies(d, location, municipality) ==
    LET s1 == Strategy1(d, location)
        s2 == Strategy2(d, municipality)
        s3 == Strategy3(d, location)
    IN  IF Truthy(s1) THEN s1
        ELSE IF Truthy(s2) THEN s2
        ELSE IF Truthy(s3) THEN s3
        ELSE None

\* f"{x:.4f}" of a coordinate given in units of 0.00001 degree
Round4(x) == (x + 5) \div 10

cache_key(lat, lon) == <<Round4(lat), Round4(lon)>>

\* what geolocator.reverse() does: it returns a location with a postcode,
\* returns no location or none with a postcode, or raises
Outcome(kind, postcode) == [kind |-> kind, postcode |-> postcode]

(***************************************************************************)
(* Inputs of the geocoder model.                                           *)
(***************************************************************************)
\* the reference table vic_postcodes.csv; the third row repeats a locality
VicRows ==
    << <<"3000", <<"Melbourne">>, <<20>>, <<10>> >>,
       <<"3220", <<"Geelong">>, <<40>>, <<10>> >>,
       <<"3001", <<"MELBOURNE">>, <<21>>, <<11>> >> >>

\* the file is missing or empty, or holds VicRows
RefTables == {<<>>, VicRows}

Databases == {_load_database(rows) : rows \in RefTables}

\* rows a reference file may hold: three valid rows, the second repeating
\* the locality of the first in another case; a valid row with an empty
\* locality; the header row, whose coordinates are not numbers; a short row
RowPool ==
    { <<"3000", <<"Melbourne">>, <<20>>, <<10>> >>,
      <<"3001", <<"MELBOURNE">>, <<21>>, <<11>> >>,
      <<"3220", <<"Geelong">>, <<40>>, <<10>> >>,
      <<"3333", <<>>, <<30>>, <<30>> >>,
      <<"postcode", <<"locality">>, <<>>, <<>> >>,
      <<"3999", <<"Geelong">> >> }

\* every file of at most MaxRows rows
IndexTables == SeqsUpTo(RowPool, MaxRows)

\* the names get_postcode_by_suburb is asked for
Suburbs == {<<>>, <<"MELBOURNE">>, <<"GEELONG">>, <<"Melbourne">>, <<"SMITH">>}

\* every text of at most MaxLoc tokens, and three longer ones
LocTokens == {Dist, ",", "Melbourne", "SMITH", "ST"}
Locations == SeqsUpTo(LocTokens, MaxLoc)
                \cup {<<"SMITH", "ST", ",", "Melbourne", "VIC">>,
                      <<"SMITH", "ST", "AT", "Melbourne">>,
                      <<Dist, "Geelong", ",", "VIC">>}
Municipalities == {<<>>, <<"Geelong">>}

\* <<latitude, longitude>> in units of 0.00001 degree
Coordinates == {<<0, 0>>, <<12, 0>>, <<0, 21>>, <<12, 21>>, <<14, 21>>, <<26, 21>>}

Keys == {cache_key(c[1], c[2]) : c \in Coordinates}

Outcomes == {Outcome("postcode", "3000"), Outcome("postcode", "2640"),
             Outcome("postcode", ""), Outcome("nothing", None),
             Outcome("GeocoderTimedOut", None), Outcome("GeocoderServiceError", None),
             Outcome("ValueError", None)}

\* the text strategies on every input of the model, evaluated once: what
\* strategies 1 to 3 return together, and what each finds on its own
TextResults ==
    [d \in Databases |-> [location \in Locations |-> [municipality \in Municipalities |->
        [text |-> TextStrategies(d, location, municipality),
         s1   |-> Strategy1(d, location),
         s2   |-> Strategy2(d, municipality),
         s3   |-> Strategy3(d, location)]]]]

\* "if latitude and longitude and latitude != 0 and longitude != 0"
HasCoordinates(latitude, longitude) == latitude # 0 /\ longitude # 0


\* the cache answering no key
CacheLookup_never(cache, key) == None

\* "if cache_key in self._geocode_cache: return self._geocode_cache[cache_key]"
CacheLookup(cache, key) == IF key \in DOMAIN cache THEN cache[key] ELSE None

\* _rate_limit that never sleeps
SleepTime_none(t, last_request_time) == 0

\* the time _rate_limit sleeps when time.time() is t
SleepTime(t, last_request_time) ==
    LET elapsed == t - last_request_time
    IN  IF elapsed < _min_delay THEN _min_delay - elapsed ELSE 0

\* strategy 4 without strategy 5 behind it
AfterReverse_no_fallback(d, postcode, latitude, longitude) ==
    IF Truthy(postcode) THEN postcode ELSE "Unknown"

\* strategies 4 and 5 once _reverse_geocode has returned postcode
AfterReverse(d, postcode, latitude, longitude) ==
    IF Truthy(postcode) THEN postcode
    ELSE LET nearest == get_nearest_postcode(d, latitude, longitude)
         IN  IF Truthy(nearest) THEN nearest ELSE "Unknown"

\* what geolocator.reverse() does: it returns a location with a postcode,
\* returns no location or none with a postcode, or raises

NoRequest == [active |-> FALSE, lat |-> 0, lon |-> 0, key |-> <<0, 0>>]

\* the record of one resolve_postcode call
NoCall ==
    [done      |-> FALSE,    \* the call has returned or raised
     s1        |-> None,     \* what strategy 1, 2 and 3 find in the index
     s2        |-> None,
     s3        |-> None,
     near      |-> None,     \* what get_nearest_postcode finds
     nonzero   |-> FALSE,    \* both coordinates are non-zero
     key       |-> <<0, 0>>,
     cache_hit |-> FALSE,    \* _reverse_geocode answered from the cache
     throttled |-> FALSE,    \* _rate_limit was entered
     slept     |-> 0,
     requested |-> FALSE,    \* geolocator.reverse() was called
     outcome   |-> None,     \* the kind of its outcome
     reverse   |-> None,     \* what _reverse_geocode returned
     result    |-> None,     \* what resolve_postcode returned
     raised    |-> FALSE]    \* resolve_postcode raised

Began(d, location, latitude, longitude, municipality) ==
    [NoCall EXCEPT !.s1 = TextResults[d][location][municipality].s1,
                   !.s2 = TextResults[d][location][municipality].s2,
                   !.s3 = TextResults[d][location][municipality].s3,
                   !.near = get_nearest_postcode(d, latitude, longitude),
                   !.nonzero = HasCoordinates(latitude, longitude),
                   !.key = cache_key(latitude, longitude)]

\* resolve_postcode up to its return or up to the request it sends
resolve_postcode(location, latitude, longitude, municipality) ==
    LET text == TextResults[db][location][municipality].text
        began == Began(db, location, latitude, longitude, municipality)
        key == cache_key(latitude, longitude)
        cached == CacheLookup(_geocode_cache, key)
        slept == SleepTime(time, _last_request_time)
    IN  /\ ~pending.active
        /\ IF Truthy(text)
           THEN /\ call' = [began EXCEPT !.done = TRUE, !.result = text]
                /\ UNCHANGED <<_last_request_time, time, pending, requests, request_times>>
           ELSE IF ~HasCoordinates(latitude, longitude)
           THEN /\ call' = [began EXCEPT !.done = TRUE, !.result = "Unknown"]
                /\ UNCHANGED <<_last_request_time, time, pending, requests, request_times>>
           ELSE IF cached # None
           THEN /\ call' = [began EXCEPT !.done = TRUE, !.cache_hit = TRUE,
                                         !.reverse = cached,
                                         !.result = AfterReverse(db, cached, latitude, longitude)]
                /\ UNCHANGED <<_last_request_time, time, pending, requests, request_times>>
           ELSE /\ time + slept <= MaxTime
                /\ time' = time + slept
                /\ _last_request_time' = time'
                /\ pending' = [active |-> TRUE, lat |-> latitude, lon |-> longitude,
                               key |-> key]
                /\ call' = [began EXCEPT !.throttled = TRUE, !.slept = slept,
                                         !.requested = TRUE]
                /\ requests' = [requests EXCEPT ![key] = @ + 1]
                /\ request_times' = <<request_times[2], time'>>
        /\ UNCHANGED <<db, _geocode_cache, cached_at>>
        /\ UNCHANGED <<tvars, others>>

\* the rest of _reverse_geocode and of resolve_postcode once reverse() is over
reverse_returns(outcome) ==
    /\ pending.active
    /\ pending' = NoRequest
    /\ IF outcome.kind = "postcode" /\ Truthy(outcome.postcode)
       THEN /\ _geocode_cache' = Put(_geocode_cache, pending.key, outcome.postcode)
            /\ cached_at' = [cached_at EXCEPT ![pending.key] = requests[pending.key]]
            /\ call' = [call EXCEPT !.done = TRUE, !.outcome = outcome.kind,
                                    !.reverse = outcome.postcode,
                                    !.result = AfterReverse(db, outcome.postcode,
                                                            pending.lat, pending.lon)]
       ELSE IF outcome.kind \in {"postcode", "nothing", "GeocoderTimedOut",
                                 "GeocoderServiceError"}
       THEN /\ call' = [call EXCEPT !.done = TRUE, !.outcome = outcome.kind,
                                    !.result = AfterReverse(db, None,
                                                            pending.lat, pending.lon)]
            /\ UNCHANGED <<_geocode_cache, cached_at>>
       ELSE /\ call' = [call EXCEPT !.done = TRUE, !.outcome = outcome.kind,
                                    !.raised = TRUE]
            /\ UNCHANGED <<_geocode_cache, cached_at>>
    /\ UNCHANGED <<db, _last_request_time, time, requests, request_times>>
    /\ UNCHANGED <<tvars, others>>

\* time passes, between calls or while a request is in flight
GeoTick ==
    /\ time + TickTenths <= MaxTime
    /\ time' = time + TickTenths
    /\ UNCHANGED <<db, _geocode_cache, _last_request_time, pending, call,
                   requests, cached_at, request_times>>
    /\ UNCHANGED <<tvars, others>>

GeoInitWith(tables, start) ==
    /\ reference_rows \in tables
    /\ db = _load_database(reference_rows)
    /\ _geocode_cache = << >>
    /\ _last_request_time = 0
    /\ time = start
    /\ pending = NoRequest
    /\ call = NoCall
    /\ requests = [k \in Keys |-> 0]
    /\ cached_at = [k \in Keys |-> -1]
    /\ request_times = <<-1, -1>>

(***************************************************************************)
(* Direct queries of the PostcodeDatabase.                                 *)
(***************************************************************************)
NoQuery == [op |-> "none", lat |-> 0, lon |-> 0, suburb |-> <<>>, result |-> None]

\* a call of db.get_nearest_postcode(lat, lon)
GetNearest(lat, lon) ==
    /\ query' = [op |-> "get_nearest_postcode", lat |-> lat, lon |-> lon,
                 suburb |-> <<>>, result |-> get_nearest_postcode(db, lat, lon)]
    /\ UNCHANGED <<reference_rows, tvars, gvars, hvars, lvars, cvars, wvars>>

\* a call of db.get_postcode_by_suburb(suburb)
GetBySuburb(suburb) ==
    /\ query' = [op |-> "get_postcode_by_suburb", lat |-> 0, lon |-> 0,
                 suburb |-> suburb, result |-> get_postcode_by_suburb(db, suburb)]
    /\ UNCHANGED <<reference_rows, tvars, gvars, hvars, lvars, cvars, wvars>>

IndexInit == query = NoQuery

(***************************************************************************)
(* app.py: the severity orders and the classification of compare_times and *)
(* compare_with_uploaded, which is the same code twice.                    *)
(***************************************************************************)
severity_map_status ==
    [s \in {"Extreme", "Moderate", "Minor", "Not Yet Under Control", "Going",
            "Responding", "On Scene", "Request For Assistance", "Contained",
            "Under Control", "Controlled", "Safe", "Complete", "Not Declared",
            "Unknown"} |->
        CASE s = "Extreme"                -> 1
          [] s = "Moderate"               -> 2
          [] s = "Minor"                  -> 3
          [] s = "Not Yet Under Control"  -> 4
          [] s = "Going"                  -> 5
          [] s = "Responding"             -> 6
          [] s = "On Scene"               -> 7
          [] s = "Request For Assistance" -> 8
          [] s = "Contained"              -> 9
          [] s = "Under Control"          -> 10
          [] s = "Controlled"             -> 11
          [] s = "Safe"                   -> 12
          [] s = "Complete"               -> 13
          [] s = "Not Declared"           -> 14
          [] s = "Unknown"                -> 15]

get_status_order(s) ==
    IF s \in DOMAIN severity_map_status THEN severity_map_status[s] ELSE 99

severity_map_level ==
    [l \in {"Emergency Warning", "Watch and Act", "Advice", "Flooding", "Fire",
            "Rescue", "Accident / Rescue", "Community Update", "Building Damage",
            "Tree Down", "Other", "Incident"} |->
        CASE l = "Emergency Warning" -> 1
          [] l = "Watch and Act"     -> 2
          [] l = "Advice"            -> 3
          [] l = "Flooding"          -> 4
          [] l = "Fire"              -> 5
          [] l = "Rescue"            -> 6
          [] l = "Accident / Rescue" -> 7
          [] l = "Community Update"  -> 8
          [] l = "Building Damage"   -> 9
          [] l = "Tree Down"         -> 10
          [] l = "Other"             -> 11
          [] l = "Incident"          -> 12]

get_level_order(l) ==
    IF l \in DOMAIN severity_map_level THEN severity_map_level[l] ELSE 99

\* get_status_order(status) + get_level_order(level) * 0.1, in tenths; the
\* float sums of the code compare as these integers do for every pair of
\* ranks of the two tables
combined_sev(status, level) == 10 * get_status_order(status) + get_level_order(level)

\* the "Determine change type" block; None is a postcode without a row
determine_change_type(start_status, end_status, start_level, end_level) ==
    IF start_status = None /\ end_status # None THEN "New Warning"
    ELSE IF start_status # None /\ end_status = None THEN "Removed"
    ELSE IF start_status = end_status /\ start_level = end_level THEN "No Change"
    ELSE LET start_sev == combined_sev(start_status, start_level)
             end_sev == combined_sev(end_status, end_level)
         IN  IF end_sev < start_sev THEN "Escalated" ELSE "De-escalated"

NoVerdict ==
    [done |-> FALSE, start_status |-> None, end_status |-> None,
     start_level |-> None, end_level |-> None, change |-> None]

\* one pass of the comparison loop of compare_times for a postcode
CompareRows(start_status, end_status, start_level, end_level) ==
    /\ verdict' = [done |-> TRUE,
                   start_status |-> start_status, end_status |-> end_status,
                   start_level |-> start_level, end_level |-> end_level,
                   change |-> determine_change_type(start_status, end_status,
                                                    start_level, end_level)]
    /\ UNCHANGED <<_history, _snapshots, wall, feed, saved, compared>>
    /\ UNCHANGED <<tvars, gvars, ivars, lvars, cvars, wvars>>

(***************************************************************************)
(* history_tracker.py                                                      *)
(***************************************************************************)
\* "Keep only last 100 snapshots"
SnapshotLimit == 100
\* "Keep only last 50 entries per postcode"
HistoryLimit == 50

\* q[-n:]
LastOf(q, n) == IF Len(q) > n THEN SubSeq(q, Len(q) - n + 1, Len(q)) ELSE q

\* a record of the warnings table, restricted to the keys save_snapshot
\* reads; Location stands for the keys copied beside it
Warning(postcode, status, severity, location) ==
    [Postcode |-> postcode, Status |-> status, Severity |-> severity,
     Location |-> location]

\* a record of the dashboard's table, which has no Postcode and no Severity
DashboardRow(status, location) == [Status |-> status, Location |-> location]

\* dict.get(key, default)
Get(d, key, default) == IF key \in DOMAIN d THEN d[key] ELSE default

\* timestamp.strftime("%Y%m%d_%H%M%S"): the second the instant lies in
snapshot_id_of(timestamp) == timestamp \div TicksPerSecond

\* the file _save_history writes; MissingHistory is no file
MissingHistory == [kind |-> "missing", by_postcode |-> << >>, snapshots |-> <<>>]

HistoryFile(kind, by_postcode, snapshots) ==
    [kind |-> kind, by_postcode |-> by_postcode, snapshots |-> snapshots]

\* _load_history: the exception that leaves it (None when it returns), whether
\* it printed its warning, and the two attributes afterwards
_load_history(file) ==
    CASE file.kind = "missing" ->
            [raised |-> None, warned |-> FALSE, history |-> << >>, snapshots |-> <<>>]
      [] file.kind = "invalid" ->
            [raised |-> None, warned |-> TRUE, history |-> << >>, snapshots |-> <<>>]
      [] file.kind = "array" ->
            [raised |-> "AttributeError", warned |-> FALSE,
             history |-> << >>, snapshots |-> <<>>]
      [] OTHER ->
            [raised |-> None, warned |-> FALSE,
             history |-> file.by_postcode, snapshots |-> file.snapshots]

\* _save_history keeping the first 100 snapshots
Retained_oldest(snapshots) ==
    IF Len(snapshots) > SnapshotLimit THEN SubSeq(snapshots, 1, SnapshotLimit)
    ELSE snapshots

\* the trimming of _save_history
Retained(snapshots) == LastOf(snapshots, SnapshotLimit)

\* the postcode_summary of save_snapshot: the last warning of a postcode wins
RECURSIVE Summary(_, _)
Summary(summary, warnings) ==
    IF warnings = <<>> THEN summary
    ELSE Summary(Put(summary, Get(Head(warnings), "Postcode", "Unknown"),
                     [status   |-> Get(Head(warnings), "Status", "Unknown"),
                      severity |-> Get(Head(warnings), "Severity", "Unknown"),
                      location |-> Get(Head(warnings), "Location", "")]),
                 Tail(warnings))

HistoryOf(history, postcode) ==
    IF postcode \in DOMAIN history THEN history[postcode] ELSE <<>>

EntryOf(warning, timestamp) ==
    [timestamp |-> timestamp,
     status    |-> Get(warning, "Status", "Unknown"),
     severity  |-> Get(warning, "Severity", "Unknown"),
     location  |-> Get(warning, "Location", "")]

\* the per-postcode update appending whether or not the entry is new
AddEntry_always(history, warning, timestamp) ==
    Put(history, Get(warning, "Postcode", "Unknown"),
        LastOf(Append(HistoryOf(history, Get(warning, "Postcode", "Unknown")),
                      EntryOf(warning, timestamp)),
               HistoryLimit))

\* the per-postcode update without the cap
AddEntry_uncapped(history, warning, timestamp) ==
    LET list == HistoryOf(history, Get(warning, "Postcode", "Unknown"))
        entry == EntryOf(warning, timestamp)
    IN  Put(history, Get(warning, "Postcode", "Unknown"),
            IF list # <<>>
            THEN IF \/ list[Len(list)].status # Get(warning, "Status", "Unknown")
                    \/ list[Len(list)].severity # Get(warning, "Severity", "Unknown")
                 THEN Append(list, entry)
                 ELSE list
            ELSE Append(list, entry))

\* the per-postcode update of save_snapshot for one warning
AddEntry(history, warning, timestamp) ==
    LET list == HistoryOf(history, Get(warning, "Postcode", "Unknown"))
        entry == EntryOf(warning, timestamp)
        added == IF list # <<>>
                 THEN IF \/ list[Len(list)].status # Get(warning, "Status", "Unknown")
                         \/ list[Len(list)].severity # Get(warning, "Severity", "Unknown")
                      THEN Append(list, entry)
                      ELSE list
                 ELSE Append(list, entry)
    IN  Put(history, Get(warning, "Postcode", "Unknown"), LastOf(added, HistoryLimit))

RECURSIVE AddEntries(_, _, _)
AddEntries(history, warnings, timestamp) ==
    IF warnings = <<>> THEN history
    ELSE AddEntries(AddEntry(history, Head(warnings), timestamp),
                    Tail(warnings), timestamp)

\* the entries the loop of save_snapshot appends for a postcode, trimmed or not
RECURSIVE Appended(_, _, _)
Appended(list, warnings, postcode) ==
    IF warnings = <<>> THEN 0
    ELSE IF Get(Head(warnings), "Postcode", "Unknown") # postcode
    THEN Appended(list, Tail(warnings), postcode)
    ELSE IF list # <<>> /\ list[Len(list)].status = Get(Head(warnings), "Status", "Unknown")
                        /\ list[Len(list)].severity = Get(Head(warnings), "Severity", "Unknown")
    THEN Appended(list, Tail(warnings), postcode)
    ELSE 1 + Appended(Append(list, EntryOf(Head(warnings), 0)), Tail(warnings), postcode)

NoSave == [count |-> 0, id |-> -1, warnings |-> <<>>, trimmed |-> {}]

\* save_snapshot(warnings), the call lasting took instants.  seq, the number
\* of the call, is history.
save_snapshot(warnings, took) ==
    LET timestamp == wall
        snapshot_id == snapshot_id_of(timestamp)
        snapshot == [id |-> snapshot_id,
                     timestamp |-> timestamp,
                     warnings |-> warnings,
                     postcode_summary |-> Summary(<< >>, warnings),
                     seq |-> saved.count + 1]
    IN  /\ _history' = AddEntries(_history, warnings, timestamp)
        /\ _snapshots' = Retained(Append(_snapshots, snapshot))
        /\ history_file' = HistoryFile("object", _history', _snapshots')
        /\ wall' = wall + took
        /\ saved' = [count |-> saved.count + 1, id |-> snapshot_id,
                     warnings |-> warnings,
                     trimmed |-> {pc \in DOMAIN _history' :
                                    Len(HistoryOf(_history, pc))
                                        + Appended(HistoryOf(_history, pc), warnings, pc)
                                    > Len(_history'[pc])}]
        /\ UNCHANGED <<feed, compared, verdict, state_file, constructed>>
        /\ UNCHANGED <<tvars, gvars, ivars, cvars, wvars>>

NoSnapshot ==
    [id |-> -1, timestamp |-> -1, warnings |-> <<>>, postcode_summary |-> << >>,
     seq |-> 0]

\* get_snapshot: the first snapshot of the list with the id; NoSnapshot is None
RECURSIVE get_snapshot(_, _)
get_snapshot(snapshots, snapshot_id) ==
    IF snapshots = <<>> THEN NoSnapshot
    ELSE IF Head(snapshots).id = snapshot_id THEN Head(snapshots)
    ELSE get_snapshot(Tail(snapshots), snapshot_id)

severity_order ==
    [s \in {"GOING", "RESPONDING", "CONTAINED", "CONTROLLED", "SAFE", "No Warning"} |->
        CASE s = "GOING"      -> 1
          [] s = "RESPONDING" -> 2
          [] s = "CONTAINED"  -> 3
          [] s = "CONTROLLED" -> 4
          [] s = "SAFE"       -> 5
          [] s = "No Warning" -> 6]

SeverityOf(status) ==
    IF Upper(status) \in DOMAIN severity_order THEN severity_order[Upper(status)] ELSE 3

\* _determine_change with the comparison the other way round
_determine_change_swapped(start, end) ==
    LET start_val == SeverityOf(start)
        end_val == SeverityOf(end)
    IN  IF end_val > start_val THEN "INCREASED"
        ELSE IF end_val < start_val THEN "DECREASED"
        ELSE "REMAINED"

_determine_change(start, end) ==
    LET start_val == SeverityOf(start)
        end_val == SeverityOf(end)
    IN  IF end_val < start_val THEN "INCREASED"
        ELSE IF end_val > start_val THEN "DECREASED"
        ELSE "REMAINED"

\* the postcodes of the model as sorted() orders them
PostcodeOrder == <<"3000", "3220", "Unknown">>

\* compare_snapshots: the change records, sorted by postcode
compare_snapshots(snapshots, snapshot_id_start, snapshot_id_end) ==
    LET start == get_snapshot(snapshots, snapshot_id_start)
        end == get_snapshot(snapshots, snapshot_id_end)
    IN  IF start = NoSnapshot \/ end = NoSnapshot THEN <<>>
        ELSE LET start_postcodes == start.postcode_summary
                 end_postcodes == end.postcode_summary
                 Changed(postcode) ==
                    \/ postcode \notin DOMAIN start_postcodes /\ postcode \in DOMAIN end_postcodes
                    \/ postcode \in DOMAIN start_postcodes /\ postcode \notin DOMAIN end_postcodes
                    \/ /\ postcode \in DOMAIN start_postcodes
                       /\ postcode \in DOMAIN end_postcodes
                       /\ start_postcodes[postcode].status # end_postcodes[postcode].status
                 ChangeFor(postcode) ==
                    IF postcode \notin DOMAIN start_postcodes
                    THEN [Postcode |-> postcode,
                          Suburb |-> end_postcodes[postcode].location,
                          StatusStart |-> "No Warning",
                          StatusEnd |-> end_postcodes[postcode].status,
                          Change |-> "NEW"]
                    ELSE IF postcode \notin DOMAIN end_postcodes
                    THEN [Postcode |-> postcode,
                          Suburb |-> start_postcodes[postcode].location,
                          StatusStart |-> start_postcodes[postcode].status,
                          StatusEnd |-> "No Warning",
                          Change |-> "RESOLVED"]
                    ELSE [Postcode |-> postcode,
                          Suburb |-> end_postcodes[postcode].location,
                          StatusStart |-> start_postcodes[postcode].status,
                          StatusEnd |-> end_postcodes[postcode].status,
                          Change |-> _determine_change(start_postcodes[postcode].status,
                                                       end_postcodes[postcode].status)]
                 changed == SelectSeq(PostcodeOrder, Changed)
             IN  [i \in DOMAIN changed |-> ChangeFor(changed[i])]

NoComparison ==
    [done |-> FALSE, start |-> NoSnapshot, end |-> NoSnapshot, changes |-> <<>>]

\* a call of compare_snapshots(snapshot_id_start, snapshot_id_end); start and
\* end are history: the snapshots the call found for the two identifiers
CompareSnapshots(snapshot_id_start, snapshot_id_end) ==
    /\ compared' = [done |-> TRUE,
                    start |-> get_snapshot(_snapshots, snapshot_id_start),
                    end |-> get_snapshot(_snapshots, snapshot_id_end),
                    changes |-> compare_snapshots(_snapshots, snapshot_id_start,
                                                  snapshot_id_end)]
    /\ UNCHANGED <<_history, _snapshots, wall, feed, saved, verdict>>
    /\ UNCHANGED <<tvars, gvars, ivars, lvars, cvars, wvars>>

HistoryInitWith(feeds) ==
    /\ _history = << >>
    /\ _snapshots = <<>>
    /\ wall = 0
    /\ feed \in feeds
    /\ saved = NoSave
    /\ compared = NoComparison
    /\ verdict = NoVerdict

(***************************************************************************)
(* The constructors of the two trackers, which load the files.             *)
(***************************************************************************)
\* StatusTracker.__init__
StatusTracker_init ==
    LET loaded == _load_state(state_file)
    IN  /\ constructed.state = "no"
        /\ previous_states' = loaded.states
        /\ constructed' = [constructed EXCEPT
                              !.state = IF loaded.raised = None THEN "ok" ELSE loaded.raised,
                              !.state_warned = loaded.warned]
        /\ UNCHANGED <<clock, last_batch, last_statuses, last_reported, purged>>
        /\ UNCHANGED <<state_file, history_file>>
        /\ UNCHANGED <<gvars, ivars, hvars, cvars, wvars>>

\* HistoryTracker.__init__
HistoryTracker_init ==
    LET loaded == _load_history(history_file)
    IN  /\ constructed.history = "no"
        /\ _history' = loaded.history
        /\ _snapshots' = loaded.snapshots
        /\ constructed' = [constructed EXCEPT
                              !.history = IF loaded.raised = None THEN "ok" ELSE loaded.raised,
                              !.history_warned = loaded.warned]
        /\ UNCHANGED <<wall, feed, saved, compared, verdict>>
        /\ UNCHANGED <<state_file, history_file>>
        /\ UNCHANGED <<tvars, gvars, ivars, cvars, wvars>>

\* both trackers constructed on a fresh installation
FilesInit ==
    /\ state_file = MissingFile
    /\ history_file = MissingHistory
    /\ constructed = [state |-> "ok", state_warned |-> FALSE,
                      history |-> "ok", history_warned |-> FALSE]

(***************************************************************************)
(* main.py in scheduled mode: the poll loop, and one cycle of it step by   *)
(* step.  The main thread is "idle" between two cycles (schedule's         *)
(* run_pending and time.sleep(1)), and inside a cycle it is about to       *)
(* "fetch", to "process" the next incident, to "update" the store, to      *)
(* "open" the state file, to "dump" the store into it, or to print its     *)
(* "output"; "exited" is the process gone.  The handler main() installs    *)
(* for SIGINT and SIGTERM runs in the main thread wherever that is, and    *)
(* its sys.exit(0) raises SystemExit there.                                *)
(***************************************************************************)
\* "except Exception as e: print(...)" of main.run_check: where the main
\* thread goes on after an exception of the cycle, here one that ends the
\* process
Caught_fatal(error) == "exited"

\* "except Exception as e: print(...)" of main.run_check: where the main
\* thread goes on after an exception of the cycle
Caught(error) == "idle"

\* "if not incidents: return []" of run_check, here never taken
NoIncidents_never(incidents) == FALSE

\* "if not incidents: return []" of run_check
NoIncidents(incidents) == incidents = <<>>

\* the store after detect_change has classified the incident, here with the
\* incident written into it
StoreAfterDetect_writing(states, incident, now) ==
    Put(states, incident.incident_no, StateOf(incident, now))

\* the store after detect_change has classified the incident: the method
\* reads self._previous_states and assigns nothing
StoreAfterDetect(states, incident, now) == states

\* the position after n incidents of the batch are processed
AfterRecord(n, incidents) == IF n >= Len(incidents) THEN "update" ELSE "process"

\* a file that open(..., "w") has truncated and json.dump has not filled
TruncatedFile == StateFile("invalid", "absent", << >>)

\* no cycle has begun
NoCycle ==
    [began         |-> FALSE,
     states_before |-> << >>,     \* the store and the state file when it began
     file_before   |-> MissingFile,
     stale         |-> FALSE,     \* the store then held an entry older than 24 h
     fetch         |-> None,      \* how fetch_incidents ended
     error         |-> None,      \* the exception main.run_check caught
     returned      |-> FALSE,     \* monitor.run_check returned
     updated       |-> FALSE,     \* update_state returned
     prev_states   |-> << >>,     \* the same of the cycle before
     prev_stale    |-> FALSE,
     prev_fetch    |-> None,
     prev_error    |-> None,
     exit_at       |-> None]      \* where the signal handler met the main thread

\* the store holds an entry last seen more than 24 hours before now
HoldsStale(states, now) ==
    \E no \in DOMAIN states : states[no].last_seen < now - stale_window

\* the batches a cycle fetches; the third holds a number twice
CycleBatches ==
    { <<>>,
      <<Incident(101, "Going", "Fire")>>,
      <<Incident(101, "Safe", "Fire"), Incident(101, "Going", "Fire")>>,
      <<Incident(102, "Going", "Fire")>> }

\* what the request of fetch_incidents and the parsing of its answer do:
\* the incidents with coordinates are returned, a RequestException is
\* raised, or the payload is JSON of another shape than an object with a
\* list of results
FetchOutcomes ==
    {[kind |-> "incidents", incidents |-> b] : b \in CycleBatches}
        \cup {[kind |-> "RequestException", incidents |-> <<>>],
              [kind |-> "AttributeError", incidents |-> <<>>]}

\* the exceptions fetch_incidents lets through
FetchRaises(outcome) == outcome.kind \notin {"incidents", "RequestException"}

\* what fetch_incidents returns
fetch_incidents(outcome) ==
    IF outcome.kind = "RequestException" THEN <<>> ELSE outcome.incidents

\* what resolve_postcode does for one incident: it returns a postcode or
\* lets an exception of geolocator.reverse() through
ResolveOutcomes == {"postcode", "ValueError"}

\* what opening and writing the state file do
FileOutcomes == {"ok", "OSError"}

\* the exception propagates to main.run_check, which prints it
Raise(error) ==
    /\ main_at' = Caught(error)
    /\ cycle' = [cycle EXCEPT !.error = error]

\* schedule.run_pending() (or main() on start) calls run_check
BeginCycle ==
    /\ main_at = "idle"
    /\ main_at' = "fetch"
    /\ fetched' = <<>>
    /\ cycle_statuses' = <<>>
    /\ cycle' = [NoCycle EXCEPT !.began = TRUE,
                                !.states_before = previous_states,
                                !.file_before = state_file,
                                !.stale = HoldsStale(previous_states, clock),
                                !.prev_states = cycle.states_before,
                                !.prev_stale = cycle.stale,
                                !.prev_fetch = cycle.fetch,
                                !.prev_error = cycle.error]
    /\ UNCHANGED <<tvars, gvars, ivars, hvars, lvars, wvars>>

\* self.client.fetch_incidents() and "if not incidents: return []"
FetchIncidents(outcome) ==
    /\ main_at = "fetch"
    /\ IF FetchRaises(outcome)
       THEN /\ main_at' = Caught(outcome.kind)
            /\ cycle' = [cycle EXCEPT !.fetch = outcome.kind, !.error = outcome.kind]
            /\ UNCHANGED <<fetched, last_batch, last_statuses>>
       ELSE /\ fetched' = fetch_incidents(outcome)
            /\ IF NoIncidents(fetched')
               THEN /\ main_at' = "output"
                    /\ cycle' = [cycle EXCEPT
                                    !.fetch = IF outcome.kind = "incidents"
                                              THEN "empty" ELSE outcome.kind,
                                    !.returned = TRUE]
                    /\ last_batch' = <<>>
                    /\ last_statuses' = <<>>
               ELSE /\ main_at' = AfterRecord(0, fetched')
                    /\ cycle' = [cycle EXCEPT
                                    !.fetch = IF fetched' = <<>> THEN "empty"
                                              ELSE outcome.kind]
                    /\ UNCHANGED <<last_batch, last_statuses>>
    /\ UNCHANGED <<clock, previous_states, last_reported, purged, cycle_statuses>>
    /\ UNCHANGED <<gvars, ivars, hvars, lvars, wvars>>

\* one pass of the loop of process_incidents: detect_change, then
\* resolve_postcode, then the EmergencyStatus appended
ProcessIncident(outcome) ==
    LET incident == fetched[Len(cycle_statuses) + 1]
    IN  /\ main_at = "process"
        /\ Len(cycle_statuses) < Len(fetched)
        /\ previous_states' = StoreAfterDetect(previous_states, incident, clock)
        /\ IF outcome = "postcode"
           THEN /\ cycle_statuses' =
                      Append(cycle_statuses,
                             StatusOf(previous_states, incident, last_reported, purged))
                /\ main_at' = AfterRecord(Len(cycle_statuses'), fetched)
                /\ UNCHANGED cycle
           ELSE /\ Raise(outcome)
                /\ UNCHANGED cycle_statuses
        /\ UNCHANGED <<clock, last_batch, last_statuses, last_reported, purged, fetched>>
        /\ UNCHANGED <<gvars, ivars, hvars, lvars, wvars>>

\* update_state up to its call of _save_state (the history of the latest
\* reports and of the purged numbers is not kept in the loop)
UpdateState ==
    /\ main_at = "update"
    /\ previous_states' = update_state(previous_states, fetched, clock)
    /\ main_at' = "open"
    /\ UNCHANGED <<clock, last_batch, last_statuses, last_reported, purged>>
    /\ UNCHANGED <<fetched, cycle_statuses, cycle>>
    /\ UNCHANGED <<gvars, ivars, hvars, lvars, wvars>>

\* _save_state: Config.ensure_data_dir() and open(self.state_file, "w")
OpenStateFile(outcome) ==
    /\ main_at = "open"
    /\ IF outcome = "ok"
       THEN /\ state_file' = TruncatedFile
            /\ main_at' = "dump"
            /\ UNCHANGED cycle
       ELSE /\ Raise(outcome)
            /\ UNCHANGED state_file
    /\ UNCHANGED <<tvars, gvars, ivars, hvars, history_file, constructed, wvars>>
    /\ UNCHANGED <<fetched, cycle_statuses>>

\* _save_state: json.dump and the file closed; update_state and run_check
\* return
DumpStateFile(outcome) ==
    /\ main_at = "dump"
    /\ IF outcome = "ok"
       THEN /\ state_file' = _save_state(previous_states)
            /\ main_at' = "output"
            /\ cycle' = [cycle EXCEPT !.updated = TRUE, !.returned = TRUE]
            /\ last_batch' = fetched
            /\ last_statuses' = cycle_statuses
       ELSE /\ Raise(outcome)
            /\ UNCHANGED <<state_file, last_batch, last_statuses>>
    /\ UNCHANGED <<clock, previous_states, last_reported, purged>>
    /\ UNCHANGED <<gvars, ivars, hvars, history_file, constructed, wvars>>
    /\ UNCHANGED <<fetched, cycle_statuses>>

\* main.run_check formats and prints what monitor.run_check returned
PrintOutput ==
    /\ main_at = "output"
    /\ main_at' = "idle"
    /\ UNCHANGED <<fetched, cycle_statuses, cycle>>
    /\ UNCHANGED <<tvars, gvars, ivars, hvars, lvars, wvars>>

\* SIGINT or SIGTERM arrives: signal_handler closes the client and
\* sys.exit(0) ends the process from wherever the main thread is
Interrupt ==
    /\ main_at # "exited"
    /\ main_at' = "exited"
    /\ cycle' = [cycle EXCEPT !.exit_at = main_at]
    /\ UNCHANGED <<fetched, cycle_statuses>>
    /\ UNCHANGED <<tvars, gvars, ivars, hvars, lvars, wvars>>

\* main() has constructed the monitor and installed the handler
LoopInit ==
    /\ main_at = "idle"
    /\ fetched = <<>>
    /\ cycle_statuses = <<>>
    /\ cycle = NoCycle

(***************************************************************************)
(* app.py: compare_times over the table of the dashboard.  Update times    *)
(* are integers.                                                           *)
(***************************************************************************)
\* a row of the table, with the columns compare_times reads
FrameRow(postcodes, status, level, update_time) ==
    [Postcodes |-> postcodes, Status |-> status, WarningLevel |-> level,
     UpdateTime |-> update_time]

\* the filter keeping the rows updated at the boundary itself only
Visible_at(df, t) ==
    LET AtBoundary(r) == r.UpdateTime = t
    IN  SelectSeq(df, AtBoundary)

\* df[df["Update Time"] <= t]
Visible(df, t) ==
    LET NotLater(r) == r.UpdateTime <= t
    IN  SelectSeq(df, NotLater)

\* the rows expand_by_postcode makes of one row of the table
PostcodeRows(r) ==
    LET Kept(pc) == pc # "" /\ pc # "Unknown"
        kept == SelectSeq(r.Postcodes, Kept)
    IN  [i \in DOMAIN kept |->
            [Postcode |-> kept[i], Status |-> r.Status, WarningLevel |-> r.WarningLevel]]

RECURSIVE expand_by_postcode(_)
expand_by_postcode(df) ==
    IF df = <<>> THEN <<>>
    ELSE PostcodeRows(Head(df)) \o expand_by_postcode(Tail(df))

\* an empty head(1)
NoRow == [Postcode |-> None, Status |-> None, WarningLevel |-> None]

\* rows[rows["Postcode"] == pc].head(1)
FirstRow(rows, pc) ==
    LET Matches(r) == r.Postcode = pc
        matching == SelectSeq(rows, Matches)
    IN  IF matching = <<>> THEN NoRow ELSE Head(matching)

\* compare_times: the change records sorted by postcode, and the exception
\* that leaves it (sort_values("Postcode") on a table without records)
compare_times(df, start_time, end_time) ==
    LET start_pc == expand_by_postcode(Visible(df, start_time))
        end_pc == expand_by_postcode(Visible(df, end_time))
        all_postcodes == {start_pc[i].Postcode : i \in DOMAIN start_pc}
                            \cup {end_pc[i].Postcode : i \in DOMAIN end_pc}
        ChangeFor(pc) ==
            LET start_row == FirstRow(start_pc, pc)
                end_row == FirstRow(end_pc, pc)
            IN  [Postcode    |-> pc,
                 StatusStart |-> start_row.Status,
                 StatusEnd   |-> end_row.Status,
                 LevelStart  |-> start_row.WarningLevel,
                 LevelEnd    |-> end_row.WarningLevel,
                 Change      |-> determine_change_type(start_row.Status, end_row.Status,
                                                       start_row.WarningLevel,
                                                       end_row.WarningLevel)]
        Present(pc) == pc \in all_postcodes
        sorted == SelectSeq(PostcodeOrder, Present)
    IN  [raised  |-> IF all_postcodes = {} THEN "KeyError" ELSE None,
         changes |-> [i \in DOMAIN sorted |-> ChangeFor(sorted[i])]]

NoWindow ==
    [done |-> FALSE, df |-> <<>>, start_time |-> 0, end_time |-> 0,
     raised |-> None, changes |-> <<>>]

\* a call of compare_times(df, start_time, end_time)
CompareTimes(df, start_time, end_time) ==
    LET answer == compare_times(df, start_time, end_time)
    IN  /\ windowed' = [done |-> TRUE, df |-> df,
                        start_time |-> start_time, end_time |-> end_time,
                        raised |-> answer.raised, changes |-> answer.changes]
        /\ UNCHANGED <<tvars, gvars, ivars, hvars, lvars, cvars>>

WindowInit == windowed = NoWindow

(***************************************************************************)
(* Specifications.                                                         *)
(***************************************************************************)
\* the poll cycle of the monitor
Init ==
    /\ TrackerInit /\ GeoInitWith({VicRows}, StartTime)
    /\ IndexInit /\ HistoryInitWith({<<>>}) /\ FilesInit
    /\ LoopInit /\ WindowInit

Poll == \E incidents \in Batches : run_check(incidents)

Next == Poll \/ Tick

Spec == Init /\ [][Next]_vars

\* one incident per poll, every status string, the clock standing still
PollOne == \E incident \in AllIncidents : run_check(<<incident>>)

NextClassify == PollOne

SpecClassify == Init /\ [][NextClassify]_vars

\* calls of resolve_postcode one after the other, from a time that leaves
\* room for two requests
InitGeo ==
    /\ TrackerInit /\ GeoInitWith(RefTables, MaxTime - _min_delay)
    /\ IndexInit /\ HistoryInitWith({<<>>}) /\ FilesInit
    /\ LoopInit /\ WindowInit

Resolve ==
    \E location \in Locations, c \in Coordinates, municipality \in Municipalities :
        resolve_postcode(location, c[1], c[2], municipality)

Reverse == \E outcome \in Outcomes : reverse_returns(outcome)

NextGeo == Resolve \/ Reverse

SpecGeo == InitGeo /\ [][NextGeo]_vars

\* calls of resolve_postcode that no text resolves, at any times
ResolveByCoordinates ==
    \E c \in Coordinates : resolve_postcode(<<>>, c[1], c[2], <<>>)

NextThrottle == ResolveByCoordinates \/ Reverse \/ GeoTick

SpecThrottle == Init /\ [][NextThrottle]_vars

\* queries of a database loaded from any reference file
InitIndex ==
    /\ TrackerInit /\ GeoInitWith(IndexTables, StartTime)
    /\ IndexInit /\ HistoryInitWith({<<>>}) /\ FilesInit
    /\ LoopInit /\ WindowInit

\* the points get_nearest_postcode is asked for; the last is at the same
\* distance from the first two rows of RowPool
IndexCoordinates == Coordinates \cup {<<10, 21>>}

Nearest == \E c \in IndexCoordinates : GetNearest(c[1], c[2])

BySuburb == \E suburb \in Suburbs : GetBySuburb(suburb)

NextIndex == Nearest \/ BySuburb

SpecIndex == InitIndex /\ [][NextIndex]_vars

\* the warnings of the dashboard: postcode 3000 in several statuses and
\* severities, postcode 3220 beside it
Going3000 == Warning("3000", "Going", "Moderate", "Melbourne")
Safe3000 == Warning("3000", "Safe", "Moderate", "Melbourne")
Minor3000 == Warning("3000", "Going", "Minor", "Melbourne")
Upper3000 == Warning("3000", "GOING", "Moderate", "Melbourne")
Requested3000 == Warning("3000", "Requested", "Moderate", "Melbourne")
Going3220 == Warning("3220", "Going", "Moderate", "Geelong")
Contained3220 == Warning("3220", "Contained", "Minor", "Geelong")

\* the tables save_snapshot is given; the last two hold a postcode twice,
\* the very last as the dashboard's rows do, which all lack a postcode
HistoryBatches ==
    { <<>>, <<Going3000>>, <<Safe3000>>, <<Minor3000>>, <<Upper3000>>,
      <<Requested3000>>, <<Going3000, Going3220>>, <<Contained3220>>,
      <<Going3000, Safe3000>>,
      <<DashboardRow("Going", "Melbourne"), DashboardRow("Safe", "Geelong")>> }

\* instants a save_snapshot call lasts
Durations == {1, 2}

\* snapshots of any tables at any pace, and comparisons of them
Save ==
    \E warnings \in HistoryBatches, took \in Durations :
        saved.count < MaxSaves /\ save_snapshot(warnings, took)

SnapshotIds == {snapshot_id_of(t) : t \in 0..(MaxSaves * SetMax(Durations))}

Compare ==
    \E snapshot_id_start \in SnapshotIds, snapshot_id_end \in SnapshotIds :
        CompareSnapshots(snapshot_id_start, snapshot_id_end)

NextHistory == Save \/ Compare

SpecHistory == Init /\ [][NextHistory]_vars

\* a dashboard saving the tables of a feed in turn, over and over
FeedItems ==
    {[warnings |-> w, took |-> d] :
        w \in {<<Going3000>>, <<Safe3000>>, <<Going3000, Safe3000>>}, d \in Durations}

Feeds == SeqsUpTo(FeedItems, 2) \ {<<>>}

InitRetention ==
    /\ TrackerInit /\ GeoInitWith({VicRows}, StartTime)
    /\ IndexInit /\ HistoryInitWith(Feeds) /\ FilesInit
    /\ LoopInit /\ WindowInit

SaveNext ==
    LET item == feed[(saved.count % Len(feed)) + 1]
    IN  saved.count < MaxFeedSaves /\ save_snapshot(item.warnings, item.took)

NextRetention == SaveNext

SpecRetention == InitRetention /\ [][NextRetention]_vars

\* the observations of a postcode the dashboard compares: statuses and
\* levels of the orders, and values neither order knows
CompareStatuses == {"Going", "Responding", "Contained", "Safe", "Watch Zone", "Closed"}
CompareLevels == {"Emergency Warning", "Advice", "Other", "Incident", "Severe"}
Observations ==
    {<<status, level>> : status \in CompareStatuses, level \in CompareLevels}
        \cup {<<None, None>>}

ComparePostcode ==
    \E start \in Observations, end \in Observations :
        /\ start # <<None, None>> \/ end # <<None, None>>
        /\ CompareRows(start[1], end[1], start[2], end[2])

NextCompare == ComparePostcode

SpecCompare == Init /\ [][NextCompare]_vars

\* the files the two constructors may find
StoredEntries ==
    {StateOf(Incident(101, st, "Fire"), 0) : st \in {"Going", "Safe"}}

FileKeys == {"101", "102", "abc"}

StateFiles ==
    {MissingFile,
     StateFile("invalid", "absent", << >>),
     StateFile("array", "absent", << >>),
     StateFile("object", "absent", << >>),
     StateFile("object", "null", << >>)}
        \cup {StateFile("object", "dict", incidents) :
                 incidents \in UNION {[keys -> StoredEntries] : keys \in SUBSET FileKeys}}

HistoryFiles ==
    {MissingHistory,
     HistoryFile("invalid", << >>, <<>>),
     HistoryFile("array", << >>, <<>>),
     HistoryFile("object", << >>, <<>>),
     HistoryFile("object", [pc \in {"3000"} |-> <<EntryOf(Going3000, 0)>>], <<>>)}

InitLoad ==
    /\ TrackerInit /\ GeoInitWith({VicRows}, StartTime)
    /\ IndexInit /\ HistoryInitWith({<<>>})
    /\ LoopInit /\ WindowInit
    /\ state_file \in StateFiles
    /\ history_file \in HistoryFiles
    /\ constructed = [state |-> "no", state_warned |-> FALSE,
                      history |-> "no", history_warned |-> FALSE]

NextLoad == StatusTracker_init \/ HistoryTracker_init

SpecLoad == InitLoad /\ [][NextLoad]_vars

\* the poll loop of main.py in scheduled mode, with time passing between
\* two cycles
Begin == BeginCycle

Fetch == \E outcome \in FetchOutcomes : FetchIncidents(outcome)

Process == \E outcome \in ResolveOutcomes : ProcessIncident(outcome)

Update == UpdateState

Open == \E outcome \in FileOutcomes : OpenStateFile(outcome)

Dump == \E outcome \in FileOutcomes : DumpStateFile(outcome)

Output == PrintOutput

\* the main thread sleeps until the job is due again
Wait ==
    /\ main_at = "idle"
    /\ clock + 2 * TickSeconds <= MaxTicks * TickSeconds
    /\ clock' = clock + 2 * TickSeconds
    /\ UNCHANGED <<previous_states, last_batch, last_statuses, last_reported, purged>>
    /\ UNCHANGED <<gvars, others>>

\* the steps the main thread takes by itself
CycleStep == Begin \/ Fetch \/ Process \/ Update \/ Open \/ Dump \/ Output

NextSchedule ==
    Begin \/ Fetch \/ Process \/ Update \/ Open \/ Dump \/ Output \/ Wait \/ Interrupt

SpecSchedule == Init /\ [][NextSchedule]_vars

\* the same loop with the main thread running on as long as it is not
\* interrupted: a due job is run, and every call of a cycle returns or raises
SpecScheduleFair == SpecSchedule /\ WF_vars(CycleStep)

\* the rows of the dashboard's table: postcode 3000 at two times, a row with
\* two postcodes and a row without a postcode
FrameRows ==
    { FrameRow(<<"3000">>, "Going", "Advice", 1),
      FrameRow(<<"3000">>, "Safe", "Advice", 2),
      FrameRow(<<"3000", "3220">>, "Contained", "Watch and Act", 3),
      FrameRow(<<>>, "Going", "Advice", 1) }

Frames == SeqsUpTo(FrameRows, MaxFrame)

WindowTimes == 0..MaxWindow

CompareWindow ==
    \E df \in Frames, start_time \in WindowTimes, end_time \in WindowTimes :
        CompareTimes(df, start_time, end_time)

NextWindow == CompareWindow

SpecWindow == Init /\ [][NextWindow]_vars

(***************************************************************************)
(* Properties of the status tracker.                                       *)
(***************************************************************************)
Records == {last_statuses[i] : i \in DOMAIN last_statuses}

\* what detect_change answers for a number stored with status prior
ClassifiedAgainst(prior, current) ==
    detect_change((101 :> [origin_status |-> prior]), 101, current)

ChangeOf(r) == <<r.change_type, r.previous_status>>

\* the three-poll scenario: Going, then Contained, then Safe
ScenarioHolds(r) ==
    /\ r.prior = None => r.change_type = "NEW"
    /\ r.prior = "Going" /\ r.origin_status = "Contained" => r.change_type = "DOWNGRADE"
    /\ r.prior = "Contained" /\ r.origin_status = "Safe" => r.change_type = "RESOLVED"

\* C1 as stated: every record of a poll is New when its number was never
\* reported before, and is otherwise classified against the status its
\* number had in the latest earlier poll that reported it.
C1_AgainstLatestReport ==
    \A r \in Records :
        /\ ChangeOf(r) = IF r.prior = None THEN <<"NEW", None>>
                         ELSE ClassifiedAgainst(r.prior, r.origin_status)
        /\ ScenarioHolds(r)

\* C1 amended: a record is New when its number was never reported before or
\* was purged by the retention rule since its latest report; every other
\* record is classified against the status of the latest earlier report, so
\* Going, Contained, Safe in successive polls give New, DOWNGRADE, RESOLVED.
C1_AgainstLatestReportUnlessPurged ==
    \A r \in Records :
        /\ ChangeOf(r) = IF r.prior = None \/ r.was_purged THEN <<"NEW", None>>
                         ELSE ClassifiedAgainst(r.prior, r.origin_status)
        /\ ~r.was_purged => ScenarioHolds(r)

\* one poll resolves 101 from Contained and sees 102 again after its purge
C1_Witness ==
    /\ \E r \in Records : /\ r.incident_no = 101 /\ ~r.was_purged
                           /\ r.prior = "Contained" /\ r.change_type = "RESOLVED"
    /\ \E r \in Records : /\ r.incident_no = 102 /\ r.was_purged
                           /\ r.prior = "Going" /\ r.change_type = "NEW"

\* C2: a record whose number had no entry in the store when it was
\* classified is New with previous status none, whatever its status.
C2_FirstObservationIsNew ==
    \A r \in Records : ~r.had_entry => ChangeOf(r) = <<"NEW", None>>

\* a second number is first seen, with an unranked status, beside a stored one
C2_Witness ==
    /\ DOMAIN previous_states = IncidentNos
    /\ \E r \in Records : ~r.had_entry /\ r.origin_status = "Requested"
                           /\ r.change_type = "NEW"

IsSafe(s) == s \in {"Safe", "SAFE", "safe"}

\* C3: a record whose number had an entry is Resolved, with the stored
\* status as previous status, exactly when its status is "Safe" in any
\* letter case and the stored status is not.
C3_ResolvedIffSafeReached ==
    \A r \in Records :
        r.had_entry =>
            /\ r.previous_status = r.stored
            /\ r.change_type = "RESOLVED" <=> IsSafe(r.origin_status) /\ ~IsSafe(r.stored)

\* an unranked status (rank 5) turns into lower-case "safe" (rank 4)
C3_Witness ==
    \E r \in Records : /\ r.had_entry /\ r.stored = "Requested"
                       /\ r.origin_status = "safe" /\ r.change_type = "RESOLVED"

\* C4: a record whose number had an entry and which the Resolved rule does
\* not take is UPGRADE when its rank is lower than the stored status's rank,
\* DOWNGRADE when higher and NONE when equal; Responding to Contained is
\* DOWNGRADE and a repeated status is NONE.
C4_ClassifiedByRank ==
    \A r \in Records :
        r.had_entry /\ ~(IsSafe(r.origin_status) /\ ~IsSafe(r.stored)) =>
            LET cur == _get_status_priority(r.origin_status)
                prev == _get_status_priority(r.stored)
            IN  /\ cur < prev => r.change_type = "UPGRADE"
                /\ cur > prev => r.change_type = "DOWNGRADE"
                /\ cur = prev => r.change_type = "NONE"
                /\ r.stored = "Responding" /\ r.origin_status = "Contained"
                        => r.change_type = "DOWNGRADE"
                /\ r.stored = r.origin_status => r.change_type = "NONE"

C4_Witness ==
    \E r \in Records : /\ r.had_entry /\ r.stored = "Responding"
                       /\ r.origin_status = "Contained" /\ r.change_type = "DOWNGRADE"

\* a step in which update_state ran: a poll with a non-empty batch
UpdateStep == last_batch' # <<>> /\ clock' = clock /\ vars' # vars

BatchNos(batch) == {batch[i].incident_no : i \in DOMAIN batch}

\* C5: update_state removes every stored number that is absent from the
\* batch and was last seen more than 24 hours ago, and keeps, with its
\* attributes, every absent number last seen less than 24 hours ago.
C5_Retention ==
    [][UpdateStep =>
        \A no \in DOMAIN previous_states \ BatchNos(last_batch') :
            /\ clock - previous_states[no].last_seen > 24 * 3600
                    => no \notin DOMAIN previous_states'
            /\ clock - previous_states[no].last_seen < 24 * 3600
                    => /\ no \in DOMAIN previous_states'
                       /\ previous_states'[no] = previous_states[no]]_vars

\* the last poll reported 101 only and update_state purged 102
C5_Witness ==
    /\ 102 \in purged
    /\ last_batch # <<>>
    /\ 102 \notin BatchNos(last_batch)
    /\ 102 \notin DOMAIN previous_states

(***************************************************************************)
(* Properties of the geocoder.                                             *)
(***************************************************************************)
\* the postcodes of the Postcode Index
IndexPostcodes(d) ==
    {d.all_coords[i][1] : i \in DOMAIN d.all_coords}
        \cup {d.suburb_to_postcode[k] : k \in DOMAIN d.suburb_to_postcode}

\* C6: whatever reverse() does, a finished resolve_postcode call has
\* returned a postcode string or "Unknown" and has not raised.
C6_ResolveIsTotal ==
    call.done => ~call.raised /\ call.result # None

\* C7: the postcode a resolve_postcode call returns is a postcode of the
\* Postcode Index or "Unknown", never empty and never null.
C7_PostcodeOfIndexOrUnknown ==
    call.done /\ ~call.raised =>
        /\ Truthy(call.result)
        /\ call.result \in IndexPostcodes(db) \cup {"Unknown"}

\* the first strategy of the chain that succeeds for the call
FirstSuccess(c) ==
    IF Truthy(c.s1) THEN c.s1
    ELSE IF Truthy(c.s2) THEN c.s2
    ELSE IF Truthy(c.s3) THEN c.s3
    ELSE IF c.nonzero /\ Truthy(c.reverse) THEN c.reverse
    ELSE IF c.nonzero /\ Truthy(c.near) THEN c.near
    ELSE "Unknown"

\* C8: a call that returns, returns what the first successful strategy
\* found, in the order suburb, municipality, location parts, reverse
\* geocoding, nearest postcode, "Unknown"; reverse geocoding is consulted,
\* and the service requested, only when the three text strategies failed
\* and both coordinates are non-zero.
C8_FirstSuccessfulStrategy ==
    /\ call.done /\ ~call.raised => call.result = FirstSuccess(call)
    /\ call.requested \/ call.cache_hit =>
            /\ ~Truthy(call.s1) /\ ~Truthy(call.s2) /\ ~Truthy(call.s3)
            /\ call.nonzero

\* the municipality is found and returned although a location part is known too
C8_Witness ==
    /\ call.done
    /\ ~Truthy(call.s1) /\ Truthy(call.s2) /\ Truthy(call.s3)
    /\ call.s2 # call.s3
    /\ call.result = call.s2

\* C9 as stated: the service is requested at most once for each key.
C9_OneRequestPerKey ==
    \A k \in Keys : requests[k] <= 1

\* C9 amended: once the service has returned a postcode for a key, it is
\* not requested for that key again, and a lookup of a cached key returns
\* the cached postcode without a request.
C9_NoRequestOnceCached ==
    /\ \A k \in DOMAIN _geocode_cache : requests[k] = cached_at[k]
    /\ call.cache_hit =>
            /\ ~call.requested
            /\ call.key \in DOMAIN _geocode_cache
            /\ call.result = _geocode_cache[call.key]

\* a key whose first request failed and whose second was cached is looked up
C9_Witness ==
    /\ call.done /\ call.cache_hit
    /\ requests[call.key] = 2
    /\ cached_at[call.key] = 2

\* C10: two consecutive requests are at least _min_delay (1.1 s) apart, and
\* a lookup that enters the throttle sends its request, after its sleep.
C10_RequestsSpaced ==
    /\ request_times[1] # -1 => request_times[2] - request_times[1] >= 11
    /\ call.throttled => call.requested /\ _last_request_time = request_times[2]

\* the second request was sent after a sleep shorter than the full delay
C10_Witness ==
    /\ request_times[1] # -1
    /\ call.requested
    /\ call.slept > 0 /\ call.slept < _min_delay

(***************************************************************************)
(* Properties of the PostcodeDatabase.                                     *)
(***************************************************************************)
\* the rows of the reference file that the index holds
ValidRows == {i \in DOMAIN reference_rows : ValidRow(reference_rows[i])}

DistanceTo(i, lat, lon) ==
    _haversine(lat, lon, reference_rows[i][4][1], reference_rows[i][3][1])

\* the postcode is that of a reference point nearest to (lat, lon)
AtMinimum(postcode, lat, lon) ==
    \E i \in ValidRows :
        /\ reference_rows[i][1] = postcode
        /\ \A j \in ValidRows : DistanceTo(i, lat, lon) <= DistanceTo(j, lat, lon)

\* C11 as stated: get_nearest_postcode answers nothing for (0, 0) and for an
\* empty index, and for every other point the postcode of a nearest
\* reference point.
C11_NearestUnlessOrigin ==
    query.op = "get_nearest_postcode" =>
        IF (query.lat = 0 /\ query.lon = 0) \/ ValidRows = {}
        THEN query.result = None
        ELSE AtMinimum(query.result, query.lat, query.lon)

\* C11 amended: get_nearest_postcode answers nothing when the latitude or
\* the longitude is 0 and for an empty index, and for every other point the
\* postcode of a nearest reference point.
C11_NearestUnlessZeroCoordinate ==
    query.op = "get_nearest_postcode" =>
        IF query.lat = 0 \/ query.lon = 0 \/ ValidRows = {}
        THEN query.result = None
        ELSE AtMinimum(query.result, query.lat, query.lon)

\* a point off both axes was answered with a row that is not the first of an
\* index of rows at different distances
C11_Witness ==
    /\ query.op = "get_nearest_postcode"
    /\ query.lat # 0 /\ query.lon # 0
    /\ \E i \in ValidRows, j \in ValidRows :
          /\ i < j
          /\ DistanceTo(j, query.lat, query.lon) < DistanceTo(i, query.lat, query.lon)
          /\ query.result = reference_rows[j][1]
          /\ query.result # reference_rows[i][1]

\* the valid rows whose locality, upper-cased, is the name asked for
LocalityRows(suburb) ==
    {i \in ValidRows : UpperText(reference_rows[i][2]) = suburb}

\* C12 as stated: get_postcode_by_suburb, asked for the upper-cased locality
\* of a valid row, answers that row's postcode.
C12_EveryRowFound ==
    query.op = "get_postcode_by_suburb" =>
        \A i \in LocalityRows(query.suburb) : query.result = reference_rows[i][1]

\* C12 amended: asked for the upper-cased locality of a valid row, a locality
\* that is not empty, get_postcode_by_suburb answers the postcode of the
\* first valid row of the file with that locality; asked for the empty name
\* it answers nothing.
C12_FirstRowOfLocalityFound ==
    query.op = "get_postcode_by_suburb" =>
        /\ query.suburb = <<>> => query.result = None
        /\ query.suburb # <<>> /\ LocalityRows(query.suburb) # {} =>
              query.result = reference_rows[SetMin(LocalityRows(query.suburb))][1]

\* a locality that two valid rows give different postcodes was asked for
C12_Witness ==
    /\ query.op = "get_postcode_by_suburb"
    /\ \E i \in LocalityRows(query.suburb), j \in LocalityRows(query.suburb) :
          /\ i < j
          /\ reference_rows[i][1] # reference_rows[j][1]
          /\ query.result = reference_rows[i][1]

(***************************************************************************)
(* Properties of the history tracker.                                      *)
(***************************************************************************)
\* a step of save_snapshot
SaveStep == saved'.count = saved.count + 1

\* a step of save_snapshot given the table of the save before it
SameTableSavedAgain ==
    SaveStep /\ saved.count >= 1 /\ saved'.warnings = saved.warnings

HistoryLengthsKept ==
    \A postcode \in DOMAIN _history' :
        /\ postcode \in DOMAIN _history
        /\ Len(_history'[postcode]) = Len(_history[postcode])

\* all the rows of a postcode in the table have one status and one severity
Uniform(warnings) ==
    \A i \in DOMAIN warnings, j \in DOMAIN warnings :
        Get(warnings[i], "Postcode", "Unknown") = Get(warnings[j], "Postcode", "Unknown")
            => /\ Get(warnings[i], "Status", "Unknown") = Get(warnings[j], "Status", "Unknown")
               /\ Get(warnings[i], "Severity", "Unknown") = Get(warnings[j], "Severity", "Unknown")

\* C13 as stated: the second of two successive saves of one table leaves the
\* length of every postcode's history list as the first save left it.
C13_SecondSaveAppendsNothing ==
    [][SameTableSavedAgain => HistoryLengthsKept]_vars

\* C13 amended: the second of two successive saves of one table leaves the
\* length of every postcode's history list as the first save left it,
\* provided the rows of each postcode in the table agree on status and
\* severity.
C13_SecondSaveOfUniformTableAppendsNothing ==
    [][SameTableSavedAgain /\ Uniform(saved.warnings) => HistoryLengthsKept]_vars

\* a table that is not empty was saved twice in succession and the history
\* of its postcode holds one entry
C13_Witness ==
    /\ saved.count = 2
    /\ saved.warnings # <<>>
    /\ Uniform(saved.warnings)
    /\ Len(_snapshots) = 2
    /\ _snapshots[1].warnings = _snapshots[2].warnings
    /\ \A postcode \in DOMAIN _history : Len(_history[postcode]) = 1

\* C14: the retained list holds at most 100 snapshots, and they are the
\* snapshots saved last, in the order of their creation.
C14_LastHundredInOrder ==
    /\ Len(_snapshots) <= SnapshotLimit
    /\ Len(_snapshots) <= saved.count
    /\ \A i \in DOMAIN _snapshots :
          _snapshots[i].seq = saved.count - Len(_snapshots) + i

\* more than 100 snapshots were saved and the first ones are gone
C14_Witness ==
    /\ saved.count > SnapshotLimit
    /\ Len(_snapshots) = SnapshotLimit
    /\ _snapshots[1].seq = saved.count - SnapshotLimit + 1

\* the entries a save_snapshot step adds to a postcode's list: those of the
\* new list that carry the instant of the call
NewEntries(postcode) ==
    SelectSeq(_history'[postcode], LAMBDA e : e.timestamp = wall)

\* the new list is the old one with the new entries behind it, without
\* as many of the oldest entries as exceed the cap
OldestDropped(postcode) ==
    LET old == HistoryOf(_history, postcode)
        all == old \o NewEntries(postcode)
    IN  _history'[postcode] = LastOf(all, HistoryLimit)

\* C15: a postcode's history list holds at most 50 entries, and a save that
\* exceeds the cap drops the oldest entries of the list.
C15_FiftyNewestKept ==
    /\ [](\A postcode \in DOMAIN _history : Len(_history[postcode]) <= HistoryLimit)
    /\ [][SaveStep => \A postcode \in DOMAIN _history' : OldestDropped(postcode)]_vars

\* the last save appended to a full list, which lost its oldest entry
C15_Witness ==
    \E postcode \in saved.trimmed :
        /\ Len(_history[postcode]) = HistoryLimit
        /\ _history[postcode][1].timestamp > 0
        /\ _history[postcode][HistoryLimit].timestamp = _snapshots[Len(_snapshots)].timestamp

\* C16: the identifier a save_snapshot call returns finds, by get_snapshot,
\* the snapshot that call created, and the identifiers of the retained
\* snapshots are distinct and increase in the order of creation.
C16_IdFindsItsSnapshot ==
    /\ saved.count >= 1 => get_snapshot(_snapshots, saved.id).seq = saved.count
    /\ \A i \in DOMAIN _snapshots, j \in DOMAIN _snapshots :
          i < j => _snapshots[i].id < _snapshots[j].id

\* the records of the last comparison for a postcode
RecordsFor(postcode) ==
    {i \in DOMAIN compared.changes : compared.changes[i].Postcode = postcode}

\* the comparison found both snapshots
BothFound == compared.done /\ compared.start # NoSnapshot /\ compared.end # NoSnapshot

ComparedPostcodes ==
    DOMAIN compared.start.postcode_summary \cup DOMAIN compared.end.postcode_summary

\* the classification C17 states for a postcode of the last comparison, in
\* the words of compare_snapshots: NEW, RESOLVED, REMAINED for Unchanged,
\* INCREASED for Escalated and DECREASED for De-escalated
StatedChange(postcode) ==
    LET start_postcodes == compared.start.postcode_summary
        end_postcodes == compared.end.postcode_summary
    IN  IF postcode \notin DOMAIN start_postcodes THEN "NEW"
        ELSE IF postcode \notin DOMAIN end_postcodes THEN "RESOLVED"
        ELSE IF /\ start_postcodes[postcode].status = end_postcodes[postcode].status
                /\ start_postcodes[postcode].severity = end_postcodes[postcode].severity
        THEN "REMAINED"
        ELSE IF combined_sev(end_postcodes[postcode].status, end_postcodes[postcode].severity)
                  < combined_sev(start_postcodes[postcode].status,
                                 start_postcodes[postcode].severity)
        THEN "INCREASED"
        ELSE "DECREASED"

\* C17 as stated: compare_snapshots returns one record for each postcode of
\* either snapshot, classified New, Resolved, Unchanged when status and level
\* are identical, and else Escalated or De-escalated by the combined
\* severity.
C17_OneRecordPerPostcode ==
    BothFound =>
        \A postcode \in ComparedPostcodes :
            /\ Cardinality(RecordsFor(postcode)) = 1
            /\ \A i \in RecordsFor(postcode) :
                  compared.changes[i].Change = StatedChange(postcode)

\* the rank the amended claim gives a status
StatusRank(status) ==
    CASE Upper(status) = "GOING"      -> 1
      [] Upper(status) = "RESPONDING" -> 2
      [] Upper(status) = "CONTAINED"  -> 3
      [] Upper(status) = "CONTROLLED" -> 4
      [] Upper(status) = "SAFE"       -> 5
      [] OTHER                        -> 3

\* C17 amended: compare_snapshots returns one record for each postcode of
\* exactly one snapshot, NEW or RESOLVED, one record for each postcode of
\* both snapshots whose status strings differ, classified by the rank of the
\* status alone (INCREASED to a lower rank, DECREASED to a higher one,
\* REMAINED between equal ranks), and no record for a postcode whose status
\* is the same in both, whatever its severity; the records are sorted by
\* postcode.
C17_RecordPerChangedStatus ==
    BothFound =>
        LET start_postcodes == compared.start.postcode_summary
            end_postcodes == compared.end.postcode_summary
        IN  /\ \A i \in DOMAIN compared.changes :
                  compared.changes[i].Postcode \in ComparedPostcodes
            /\ \A i \in DOMAIN compared.changes, j \in DOMAIN compared.changes :
                  i < j => \E m \in DOMAIN PostcodeOrder, n \in DOMAIN PostcodeOrder :
                              /\ m < n
                              /\ PostcodeOrder[m] = compared.changes[i].Postcode
                              /\ PostcodeOrder[n] = compared.changes[j].Postcode
            /\ \A postcode \in ComparedPostcodes :
                  IF postcode \notin DOMAIN start_postcodes
                  THEN \E i \in DOMAIN compared.changes :
                          /\ RecordsFor(postcode) = {i}
                          /\ compared.changes[i].Change = "NEW"
                  ELSE IF postcode \notin DOMAIN end_postcodes
                  THEN \E i \in DOMAIN compared.changes :
                          /\ RecordsFor(postcode) = {i}
                          /\ compared.changes[i].Change = "RESOLVED"
                  ELSE IF start_postcodes[postcode].status = end_postcodes[postcode].status
                  THEN RecordsFor(postcode) = {}
                  ELSE \E i \in DOMAIN compared.changes :
                          /\ RecordsFor(postcode) = {i}
                          /\ compared.changes[i].Change =
                                LET start_val == StatusRank(start_postcodes[postcode].status)
                                    end_val == StatusRank(end_postcodes[postcode].status)
                                IN  IF end_val < start_val THEN "INCREASED"
                                    ELSE IF end_val > start_val THEN "DECREASED"
                                    ELSE "REMAINED"

\* two snapshots were compared in which one postcode went from Going to Safe
\* and the answer holds its record
C17_Witness ==
    /\ BothFound
    /\ \E postcode \in ComparedPostcodes, i \in DOMAIN compared.changes :
          /\ postcode \in DOMAIN compared.start.postcode_summary
          /\ postcode \in DOMAIN compared.end.postcode_summary
          /\ compared.start.postcode_summary[postcode].status = "Going"
          /\ compared.end.postcode_summary[postcode].status = "Safe"
          /\ compared.changes[i].Postcode = postcode
          /\ compared.changes[i].Change = "DECREASED"

(***************************************************************************)
(* Properties of the dashboard's comparison.                               *)
(***************************************************************************)
\* the last comparison had an observation on both sides
BothObserved ==
    verdict.done /\ verdict.start_status # None /\ verdict.end_status # None

\* C18: when the ranks of the two statuses differ, the comparison is
\* Escalated or De-escalated as the status ranks alone say, whatever the two
\* levels are.
C18_StatusDominates ==
    /\ BothObserved
    /\ get_status_order(verdict.start_status) # get_status_order(verdict.end_status)
    => verdict.change =
          IF get_status_order(verdict.end_status) < get_status_order(verdict.start_status)
          THEN "Escalated"
          ELSE "De-escalated"

\* C19: a transition to a lower combined score is Escalated, to a higher one
\* De-escalated, and between equal scores No Change.
C19_ClassifiedByScore ==
    BothObserved =>
        LET start_sev == combined_sev(verdict.start_status, verdict.start_level)
            end_sev == combined_sev(verdict.end_status, verdict.end_level)
        IN  verdict.change =
                IF end_sev < start_sev THEN "Escalated"
                ELSE IF end_sev > start_sev THEN "De-escalated"
                ELSE "No Change"

(***************************************************************************)
(* Properties of the constructors.                                         *)
(***************************************************************************)
\* the state file is there and is not what _save_state writes
MalformedState ==
    \/ state_file.kind \in {"invalid", "array"}
    \/ state_file.kind = "object" /\ state_file.incidents_kind = "null"
    \/ /\ state_file.kind = "object" /\ state_file.incidents_kind = "dict"
       /\ ~(DOMAIN state_file.incidents \subseteq DOMAIN IntOf)

MalformedHistory == history_file.kind \in {"invalid", "array"}

\* C20: neither constructor fails on any file, and a malformed file leaves
\* the tracker empty with a warning printed.
C20_LoadNeverFails ==
    /\ constructed.state # "no" =>
          /\ constructed.state = "ok"
          /\ MalformedState => previous_states = << >> /\ constructed.state_warned
    /\ constructed.history # "no" =>
          /\ constructed.history = "ok"
          /\ MalformedHistory =>
                _history = << >> /\ _snapshots = <<>> /\ constructed.history_warned

(***************************************************************************)
(* Properties of the change feed.                                          *)
(***************************************************************************)
\* no number occurs twice in the batch
UniqueIdentities(batch) ==
    \A i \in DOMAIN batch, j \in DOMAIN batch :
        batch[i].incident_no = batch[j].incident_no => i = j

\* a poll of the batch that the poll before it fetched and stored
SamePollAgain ==
    /\ last_batch # <<>>
    /\ last_batch' = last_batch
    /\ clock' = clock

\* C23: a poll of a batch of unique identities that the poll before it has
\* stored classifies every record as NONE, whatever the statuses of the batch
\* and whatever the store held before the first of the two polls.
C23_SecondPollUnchanged ==
    [][SamePollAgain /\ UniqueIdentities(last_batch) =>
        /\ Len(last_statuses') = Len(last_batch)
        /\ \A i \in DOMAIN last_statuses' :
              /\ last_statuses'[i].change_type = "NONE"
              /\ last_statuses'[i].previous_status = last_batch[i].origin_status]_vars

\* the second poll of a batch of two numbers, the first of which the first
\* poll had classified as RESOLVED
C23_Witness ==
    /\ Len(last_batch) = 2
    /\ UniqueIdentities(last_batch)
    /\ last_batch[1].origin_status = "Safe"
    /\ last_reported[101] = "Safe"
    /\ \A i \in DOMAIN last_statuses :
          last_statuses[i].change_type = "NONE" /\ last_statuses[i].prior = last_batch[i].origin_status

(***************************************************************************)
(* Properties of the severity tables.                                      *)
(***************************************************************************)
\* the statuses each table ranks, as the table's lookup reads them
RecognizedByStore(status) == Upper(status) \in DOMAIN StatusPriority
RecognizedByHistory(status) == Upper(status) \in DOMAIN severity_order
RecognizedByDashboard(status) == status \in DOMAIN severity_map_status

\* statuses and levels no table ranks
UnrankedValues == {"Requested", "Watch Zone", "Closed", "Severe"}

\* C24: in the store's status ranks, in the history tracker's severity order
\* and in the dashboard's status and level orders an unrecognized value ranks
\* after every recognized one, and no comparison classifies a transition
\* from a recognized status to an unrecognized one as UPGRADE, INCREASED or
\* Escalated.
C24_UnrecognizedSortsLast ==
    /\ \A u \in UnrankedValues :
          /\ \A r \in DOMAIN StatusPriority : _get_status_priority(u) > StatusPriority[r]
          /\ \A r \in DOMAIN severity_order : SeverityOf(u) > severity_order[r]
          /\ \A r \in DOMAIN severity_map_status :
                get_status_order(u) > severity_map_status[r]
          /\ \A r \in DOMAIN severity_map_level :
                get_level_order(u) > severity_map_level[r]
    /\ \A i \in DOMAIN last_statuses :
          /\ last_statuses[i].had_entry
          /\ RecognizedByStore(last_statuses[i].stored)
          /\ ~RecognizedByStore(last_statuses[i].origin_status)
          => last_statuses[i].change_type # "UPGRADE"
    /\ \A i \in DOMAIN compared.changes :
          /\ RecognizedByHistory(compared.changes[i].StatusStart)
          /\ ~RecognizedByHistory(compared.changes[i].StatusEnd)
          => compared.changes[i].Change # "INCREASED"
    /\ /\ verdict.done
       /\ verdict.start_status # None /\ verdict.end_status # None
       /\ RecognizedByDashboard(verdict.start_status)
       /\ ~RecognizedByDashboard(verdict.end_status)
       => verdict.change # "Escalated"

(***************************************************************************)
(* Properties of the state file.                                           *)
(***************************************************************************)
\* C25: once update_state has returned, the state file holds the mapping
\* the tracker holds in memory, and a StatusTracker constructed from the
\* file answers detect_change as the tracker does, for every number and
\* every status.
C25_WriteThrough ==
    state_file # MissingFile =>
        LET loaded == _load_state(state_file)
        IN  /\ loaded.raised = None /\ ~loaded.warned
            /\ loaded.states = previous_states
            /\ \A no \in IncidentNos, status \in AllStatuses :
                  detect_change(loaded.states, no, status)
                      = detect_change(previous_states, no, status)

\* update_state has stored one number and purged the other, and the file
\* holds the one that is left
C25_Witness ==
    /\ 102 \in purged
    /\ DOMAIN previous_states = {101}
    /\ previous_states[101].origin_status = "Safe"
    /\ DOMAIN state_file.incidents = {"101"}

(***************************************************************************)
(* Properties of the geocoder's fallback.                                  *)
(***************************************************************************)
\* the external geocoder was asked and gave no postcode: it timed out,
\* raised a service error, or returned nothing or a location without one
ReverseFailed ==
    /\ call.done /\ call.requested
    /\ ~Truthy(call.s1) /\ ~Truthy(call.s2) /\ ~Truthy(call.s3)
    /\ call.nonzero
    /\ call.outcome \in {"GeocoderTimedOut", "GeocoderServiceError", "nothing", "postcode"}
    /\ ~Truthy(call.reverse)

\* C27: when the text strategies fail, both coordinates are non-zero and the
\* external geocoder times out, raises a service error or returns no
\* postcode, resolve_postcode does not raise and returns the nearest
\* postcode of the index, or "Unknown" when the index is empty.
C27_FallsBackToNearest ==
    ReverseFailed =>
        /\ ~call.raised
        /\ call.result = IF db.all_coords = <<>> THEN "Unknown" ELSE call.near
        /\ db.all_coords # <<>> => call.result \in IndexPostcodes(db)

\* a time-out answered with the nearest postcode of the index
C27_Witness ==
    /\ ReverseFailed
    /\ call.outcome = "GeocoderTimedOut"
    /\ db.all_coords # <<>>
    /\ call.result = call.near
    /\ call.result # "Unknown"

(***************************************************************************)
(* Properties of the nearest-postcode scan.                                *)
(***************************************************************************)
\* the rows of the index at the minimum distance from (lat, lon)
NearestRows(lat, lon) ==
    {i \in ValidRows :
        \A j \in ValidRows : DistanceTo(i, lat, lon) <= DistanceTo(j, lat, lon)}

\* C28: get_nearest_postcode answers the postcode of the first row, in the
\* order of the reference file, among the rows at the minimum distance.
C28_FirstOfNearest ==
    query.op = "get_nearest_postcode" /\ query.result # None =>
        query.result = reference_rows[SetMin(NearestRows(query.lat, query.lon))][1]

\* two rows of different postcodes are both nearest, and the answer is the
\* postcode of the one that comes first
C28_Witness ==
    /\ query.op = "get_nearest_postcode" /\ query.result # None
    /\ \E i \in NearestRows(query.lat, query.lon), j \in NearestRows(query.lat, query.lon) :
          /\ i < j
          /\ reference_rows[i][1] # reference_rows[j][1]
          /\ query.result = reference_rows[i][1]

(***************************************************************************)
(* Properties of the poll loop.                                            *)
(***************************************************************************)
\* the cycle under way has ended with an exception
CycleFailed == cycle.error # None /\ main_at # "exited"

\* C21: an exception raised in a cycle, by the fetch, by the resolution of a
\* postcode or by the writing of the state file, ends that cycle only: the
\* process exits by an interrupt only, and after a failed cycle the next
\* cycle begins unless the operator interrupts first.
C21_ErrorsEndTheCycleOnly ==
    /\ [](main_at = "exited" => cycle.exit_at # None)
    /\ [](CycleFailed => main_at = "idle")
    /\ (CycleFailed ~> (main_at = "fetch" \/ main_at = "exited"))

\* a cycle is processing its batch after a cycle that the resolution of a
\* postcode has failed, and no interrupt has come
C21_Witness ==
    /\ main_at = "process"
    /\ cycle.prev_error = "ValueError"
    /\ cycle.exit_at = None

\* C22: an interrupt ends the process between two cycles only: when the
\* process has exited, the interrupt has met the main thread outside the
\* fetch, the classification, the update of the store and the rewriting of
\* the state file, and no cycle is left with records classified and the
\* store or the state file not yet rewritten.
C22_ExitBetweenCyclesOnly ==
    /\ main_at = "exited" => cycle.exit_at \in {"idle", "output"}
    /\ main_at = "exited" /\ cycle_statuses # <<>> /\ cycle.error = None =>
          /\ cycle.updated
          /\ state_file = _save_state(previous_states)

\* C26: classification does not write the store: every record of a cycle,
\* also the second of two records of one number, is classified against the
\* store as it was when the cycle began, the store changes in the step of
\* update_state only and the state file in _save_state only.
C26_ClassificationReadsOnly ==
    /\ [](\A i \in DOMAIN cycle_statuses :
            ChangeOf(cycle_statuses[i]) =
                detect_change(cycle.states_before, fetched[i].incident_no,
                              fetched[i].origin_status))
    /\ [][previous_states' # previous_states =>
            main_at = "update" /\ main_at' = "open"]_vars
    /\ [][state_file' # state_file => main_at \in {"open", "dump"}]_vars

\* two records of number 101 are classified, the second as unchanged from
\* the stored "Going" although the first reported "Safe"
C26_Witness ==
    /\ main_at = "update"
    /\ Len(cycle_statuses) = 2
    /\ fetched[1].incident_no = fetched[2].incident_no
    /\ cycle_statuses[1].change_type = "RESOLVED"
    /\ cycle_statuses[2].change_type = "NONE"
    /\ previous_states = cycle.states_before

\* fetch_incidents returned no incident, the feed being empty or the
\* request having failed
FetchedNothing(fetch) == fetch \in {"empty", "RequestException"}

PostcodesAt(t) ==
    LET rows == expand_by_postcode(Visible(windowed.df, t))
    IN  {rows[i].Postcode : i \in DOMAIN rows}

\* C30: when start_time <= end_time, the rows visible at the start are
\* visible at the end, every postcode present at the start is present at the
\* end, and no record of compare_times says "Removed".
C30_NothingRemovedInWindow ==
    windowed.done /\ windowed.start_time <= windowed.end_time =>
        /\ Range(Visible(windowed.df, windowed.start_time))
              \subseteq Range(Visible(windowed.df, windowed.end_time))
        /\ PostcodesAt(windowed.start_time) \subseteq PostcodesAt(windowed.end_time)
        /\ \A i \in DOMAIN windowed.changes :
              /\ windowed.changes[i].Change # "Removed"
              /\ windowed.changes[i].StatusEnd # None

\* between the boundaries a postcode has changed its first row and another
\* has appeared
C30_Witness ==
    /\ windowed.done /\ windowed.start_time < windowed.end_time
    /\ PostcodesAt(windowed.start_time) # {}
    /\ PostcodesAt(windowed.start_time) # PostcodesAt(windowed.end_time)
    /\ \E i \in DOMAIN windowed.changes : windowed.changes[i].Change = "New Warning"
    /\ \E i \in DOMAIN windowed.changes : windowed.changes[i].Change = "De-escalated"

====
